---------------------------- MODULE Spec2Model ----------------------------
(***************************************************************************)
(* Model of the concurrent execution core of KIS-Stock-AI:                 *)
(*   src/src/ai/scanner_engine.py        (ScannerEngine)                   *)
(*   src/src/ai/scanner_engine_helper.py (ScannerHelper)                   *)
(*   src/src/ai/kis_api.py               (KISApi token cache)              *)
(*                                                                         *)
(* Candidates are Python dicts that are shared by reference between        *)
(* _buy_pool, scan_results and candidates; here every dict is an entry of  *)
(* the function `item` and the lists hold its indices.                     *)
(*                                                                         *)
(* select_balanced_portfolio admits only entries that carry a              *)
(* buy_trade_type, and run_scan_cycle creates entries without one, so the  *)
(* tracked list is fed by the rows _load_scanner_state restores from the   *)
(* database at construction: those rows are the input of the model.        *)
(***************************************************************************)
EXTENDS Integers, Sequences, FiniteSets, TLC

NItems == 2
\* rows in the pool of the selection specification
NSel == 3
\* orders the broker accepts in one run
MaxOrders == 2
\* threads of the executor that are followed (the pool has max_workers=6)
NWorkers == 2
\* tokens the broker issues in one run
MaxIssued == 2

VARIABLES
    item,        \* the candidate dicts: index -> record
    buyPool,     \* self._buy_pool (indices)
    candidates,  \* self.candidates (indices)
    blacklist,   \* self._symbol_blacklist
    holdings,    \* self.holdings (records)
    cash,        \* self._available_cash
    used,        \* self._portfolio_used
    orders,      \* the broker's order book: every order accepted so far
    active,      \* what get_active_markets() returns now
    sel,         \* the running state of select_balanced_portfolio
    trk,         \* the Candidate Tracker task: position and locals
    rpr,         \* the Order Reaper task: position and locals
    cfg,         \* the settings table: ENABLE_AUTO_BUY, ENABLE_AUTO_SELL
    failed,      \* symbols with a permanent-per-symbol buy failure this session
    wk,          \* the threads of self._executor: position and locals of each
    tok,         \* kis_api._token_cache and the kis_token.json file
    fxc,         \* self._fx_cache["US"]: does it hold a rate younger than an hour
    pos,         \* the symbols the broker account holds
    htk,         \* the Holdings Tracker task: position and locals
    retired,     \* symbols sold whose position has not left the account since
    status,      \* self.state["status"]: idle, scanning, paused or stopped
    drv,         \* the Scan Driver task (run): position and locals
    aged,        \* one pending order and one pass of the Order Reaper over it
    sized,       \* one sizing of a buy order on an exchange with lots
    exit,        \* one take-profit decision of the Holdings Tracker
    clk,         \* one reading of get_active_markets()
    scans        \* the scan_results table: the saves that wrote rows under the
                 \* cycle id state["cycle_count"] holds now

poolVars == <<wk, tok, fxc>>

holdVars == <<pos, htk, retired>>

engineVars == <<item, buyPool, candidates, blacklist, holdings, used, orders,
                active, sel, trk, rpr, cfg, failed, pos, htk, retired>>

\* the variables the engine, pool and holdings actions leave alone
ctlVars == <<status, drv, aged, sized, exit, clk, scans>>

\* the variables of the engine, the worker pool and the holdings tracker
coreVars == <<item, buyPool, candidates, blacklist, holdings, cash, used, orders,
              active, sel, trk, rpr, cfg, failed, wk, tok, fxc, pos, htk, retired>>

vars == <<item, buyPool, candidates, blacklist, holdings, cash, used, orders,
          active, sel, trk, rpr, cfg, failed, wk, tok, fxc, pos, htk, retired,
          status, drv, aged, sized, exit, clk, scans>>

Styles == {"day", "swing"}
Markets == {"KR", "US"}
Symbols == {"A", "B"}

\* the statuses past which _refine_candidates keeps a tracked entry
TrackedStatuses == {"tracking", "analyzing", "watching", "ordering"}

Max(a, b) == IF a >= b THEN a ELSE b
Min(a, b) == IF a <= b THEN a ELSE b
Abs(a) == IF a >= 0 THEN a ELSE 0 - a

SeqToSet(s) == {s[i] : i \in 1..Len(s)}

RECURSIVE FilterSeq(_, _)
\* the members of sequence s that are in set S, in order
FilterSeq(s, S) ==
    IF s = <<>> THEN <<>>
    ELSE IF Head(s) \in S THEN <<Head(s)>> \o FilterSeq(Tail(s), S)
         ELSE FilterSeq(Tail(s), S)

-----------------------------------------------------------------------------
(* _refine_candidates, step 1: the affordability filter                      *)

LotByMarket(m) == IF m \in {"JP", "CN", "HK"} THEN 100 ELSE 1

\* DEFAULT_FX_RATES.get(mkt, 1400), in tenths of a won (JP is 9.5)
DefaultFxRateX10(m) ==
    CASE m = "US" -> 14000
      [] m = "JP" -> 95
      [] m = "CN" -> 1950
      [] m = "HK" -> 1800
      [] OTHER -> 14000

\* p_krw: price_krw, or the raw price converted at the default rate
PriceKrw(r) ==
    IF r.pkrw > 0 THEN r.pkrw
    ELSE IF r.market = "KR" /\ r.price > 0 THEN r.price
    ELSE IF r.price > 0 THEN (r.price * DefaultFxRateX10(r.market)) \div 10
    ELSE 0

MinCost(r) == PriceKrw(r) * LotByMarket(r.market)

IsAffordable(r, c) == PriceKrw(r) > 0 /\ MinCost(r) <= c

Affordable(it, pool, c) ==
    FilterSeq(pool, {i \in DOMAIN it : IsAffordable(it[i], c)})

-----------------------------------------------------------------------------
(* select_balanced_portfolio                                                 *)

RECURSIVE InsertByScore(_, _, _)
\* i placed after every entry whose score is at least its own (stable, descending)
InsertByScore(it, s, i) ==
    IF s = <<>> THEN <<i>>
    ELSE IF it[Head(s)].score >= it[i].score
         THEN <<Head(s)>> \o InsertByScore(it, Tail(s), i)
         ELSE <<i>> \o s

RECURSIVE SortByScore(_, _)
SortByScore(it, s) ==
    IF s = <<>> THEN <<>>
    ELSE InsertByScore(it, SortByScore(it, SubSeq(s, 1, Len(s) - 1)), s[Len(s)])

ExistingTracked(it, cands) ==
    FilterSeq(cands, {i \in DOMAIN it : it[i].st \in TrackedStatuses})

SeenSymbols(it, cands) ==
    {it[ExistingTracked(it, cands)[k]].sym : k \in 1..Len(ExistingTracked(it, cands))}

\* how many entries of a list of records have field tt equal to t
CountStyle(it, s, t) == Cardinality({k \in 1..Len(s) : it[s[k]].tt = t})

HoldingCount(hs, t) == Cardinality({k \in 1..Len(hs) : hs[k].tt = t})

\* pool_day / pool_swing before sorting
StylePool(it, aff, cands, bl, t) ==
    FilterSeq(aff, {i \in DOMAIN it :
        /\ it[i].tt = t
        /\ it[i].sym \notin SeenSymbols(it, cands)
        /\ it[i].sym \notin bl})

\* the locals of select_balanced_portfolio when its while loop is entered
SelStart(it, aff, cands, hs, bl, c) ==
    [ pd   |-> SortByScore(it, StylePool(it, aff, cands, bl, "day")),
      ps   |-> SortByScore(it, StylePool(it, aff, cands, bl, "swing")),
      sel  |-> <<>>,
      used |-> 0,
      cd   |-> HoldingCount(hs, "day")
               + CountStyle(it, ExistingTracked(it, cands), "day"),
      cs   |-> HoldingCount(hs, "swing")
               + Len(ExistingTracked(it, cands))
               - CountStyle(it, ExistingTracked(it, cands), "day"),
      cash |-> c,
      done |-> FALSE,
      run  |-> TRUE ]

\* a pick that empties the day pool before it turns to the swing pool
SelPickDayFirst(it, s) ==
    IF s.pd # <<>> THEN "day" ELSE IF s.ps # <<>> THEN "swing" ELSE "none"

\* which pool the loop body pops from: "day", "swing" or "none"
SelPick(it, s) ==
    IF s.cd < s.cs THEN
        (IF s.pd # <<>> THEN "day" ELSE IF s.ps # <<>> THEN "swing" ELSE "none")
    ELSE IF s.cs < s.cd THEN
        (IF s.ps # <<>> THEN "swing" ELSE IF s.pd # <<>> THEN "day" ELSE "none")
    ELSE
        LET scoreDay   == IF s.pd # <<>> THEN it[Head(s.pd)].score ELSE 0 - 1
            scoreSwing == IF s.ps # <<>> THEN it[Head(s.ps)].score ELSE 0 - 1
        IN  IF scoreDay >= scoreSwing /\ s.pd # <<>> THEN "day"
            ELSE IF s.ps # <<>> THEN "swing"
            ELSE "none"

\* a selection without the cash test: every pick is admitted
SelAdmitsAlways(s, cost) == TRUE
\* the admission test of the loop body
SelAdmits(s, cost) == s.used + cost <= s.cash

\* a pass that leaves a candidate it turns away at the head of its pool
SelStepKeepsRejected(it, s) ==
    IF ~(s.used < s.cash) THEN [s EXCEPT !.done = TRUE]
    ELSE IF s.pd = <<>> /\ s.ps = <<>> THEN [s EXCEPT !.done = TRUE]
    ELSE
        LET t  == SelPick(it, s)
            i  == IF t = "day" THEN Head(s.pd) ELSE Head(s.ps)
            s1 == IF t = "day" THEN [s EXCEPT !.pd = Tail(s.pd)]
                  ELSE [s EXCEPT !.ps = Tail(s.ps)]
        IN  IF t = "none" THEN s
            ELSE IF SelAdmits(s, MinCost(it[i]))
                 THEN [s1 EXCEPT !.sel = Append(s.sel, i),
                                 !.used = s.used + MinCost(it[i]),
                                 !.cd = IF t = "day" THEN s.cd + 1 ELSE s.cd,
                                 !.cs = IF t = "day" THEN s.cs ELSE s.cs + 1]
                 ELSE s

\* one pass of the while loop (its condition included)
SelStep(it, s) ==
    IF ~(s.used < s.cash) THEN [s EXCEPT !.done = TRUE]
    ELSE IF s.pd = <<>> /\ s.ps = <<>> THEN [s EXCEPT !.done = TRUE]
    ELSE
        LET t  == SelPick(it, s)
            i  == IF t = "day" THEN Head(s.pd) ELSE Head(s.ps)
            s1 == IF t = "day" THEN [s EXCEPT !.pd = Tail(s.pd)]
                  ELSE [s EXCEPT !.ps = Tail(s.ps)]
        IN  IF t = "none" THEN s
            ELSE IF SelAdmits(s, MinCost(it[i]))
                 THEN [s1 EXCEPT !.sel = Append(s.sel, i),
                                 !.used = s.used + MinCost(it[i]),
                                 !.cd = IF t = "day" THEN s.cd + 1 ELSE s.cd,
                                 !.cs = IF t = "day" THEN s.cs ELSE s.cs + 1]
                 ELSE s1

RECURSIVE SelRun(_, _)
SelRun(it, s) == IF s.done THEN s ELSE SelRun(it, SelStep(it, s))

\* select_balanced_portfolio(affordable, cash)
SelectBalancedPortfolio(it, aff, cands, hs, bl, c) ==
    SelRun(it, SelStart(it, aff, cands, hs, bl, c)).sel

\* the list _refine_candidates assigns to self.candidates
RefinedList(it, cands, selected) ==
    FilterSeq(cands, {i \in DOMAIN it :
        /\ it[i].st \in TrackedStatuses
        /\ it[i].sym \notin {it[j].sym : j \in SeqToSet(selected)}})
    \o selected

\* _refine_candidates as a function of the engine state
RefineCandidates(it, pool, cands, hs, bl, c) ==
    IF pool = <<>> \/ c <= 0 THEN cands
    ELSE RefinedList(it, cands,
             SelectBalancedPortfolio(it, Affordable(it, pool, c), cands, hs, bl, c))

-----------------------------------------------------------------------------
(* _execute_buy: the order size                                              *)

\* self._portfolio_alloc, in percent
AllocPct(t) == 50

\* strategy_budget = int(self._available_cash * alloc_pct)
StrategyBudget(c, t) == (c * AllocPct(t)) \div 100

\* strategy_avail = max(0, strategy_budget - used)
StrategyAvail(c, u, t) == Max(0, StrategyBudget(c, t) - u)

\* max_pct by risk level, in percent
MaxPct(risk) == IF risk >= 7 THEN 10 ELSE IF risk >= 4 THEN 20 ELSE 30

\* DEFAULT_LOT_SIZES.get(exchange, 1), by the market the exchange belongs to
DefaultLotSize(m) == IF m \in {"JP", "CN", "HK"} THEN 100 ELSE 1

\* the quantity before lot rounding.  avail is strategy_avail in won, fx the won
\* per unit of the quote currency (1 at home), so avail_local = avail / fx and
\* every comparison with avail_local is multiplied through by fx.
RawQty(avail, fx, price, risk, aiQty) ==
    LET maxQtyByCash == (avail * MaxPct(risk)) \div (100 * fx * price)
        q0 == IF maxQtyByCash > 0 THEN Min(aiQty, maxQtyByCash) ELSE aiQty
        q1 == Max(1, q0)
    IN  IF price * q1 * fx > avail /\ avail > price * fx
        THEN Max(1, avail \div (price * fx))
        ELSE q1

\* a lot branch without its final guard
LotFitsAlways(avail, fx, price, q) == TRUE

\* the final guard of the lot branch: the rounded order must fit avail_local
LotFits(avail, fx, price, q) == ~(price * q * fx > avail)

\* the quantity that is ordered, or 0 when _execute_buy returns without ordering
BuyQty(avail, fx, price, risk, aiQty, lot) ==
    LET q == RawQty(avail, fx, price, risk, aiQty)
    IN  IF lot > 1 THEN
            LET up == Max(lot, ((q + lot - 1) \div lot) * lot)
                r  == IF price * up * fx > avail /\ up > lot
                      THEN Max(lot, (q \div lot) * lot)
                      ELSE up
            IN  IF LotFits(avail, fx, price, r) THEN r ELSE 0
        ELSE q

\* order_krw
OrderKrw(price, q, fx) == price * q * fx

\* deviation > 0.15 of the fresh quote from the reference price
\* a check that lets every fresh price through
DeviatesNever(fresh, ref) == FALSE
Deviates(fresh, ref) == ref > 0 /\ 100 * Abs(fresh - ref) > 15 * ref

-----------------------------------------------------------------------------
(* The values the outside world supplies                                     *)

\* quotes the broker returns; 0 stands for a failed or empty answer
Quotes == {0, 120}
\* what _fetch_fx_rate returns for a foreign market
FxQuotes == {2}
\* the orderable cash the broker reports to _refresh_cash
CashSet == {100, 400}
\* the raw price a scanned row carries
ScanPrices == {100}
\* buy_price answers of the timing oracle; 0 stands for no usable answer
PredAnswers == {0, 100}
StratAnswers == {"pullback"}
ScoreSet == {80}

IdleSel == [pd |-> <<>>, ps |-> <<>>, sel |-> <<>>, used |-> 0, cd |-> 0,
            cs |-> 0, cash |-> 0, done |-> TRUE, run |-> FALSE]

IdleTrk == [pc |-> "idle", list |-> <<>>, idx |-> 0, filled |-> FALSE,
            qty |-> 0, price |-> 0, fx |-> 0, budget |-> 0, usedRead |-> 0]

IdleRpr == [pc |-> "idle", list |-> <<>>, idx |-> 0]

\* no holding in hand
NoHolding == [sym |-> "", market |-> "", st |-> "", sellPrice |-> 0, stop |-> 0,
              action |-> "", tt |-> "none", cur |-> 0]

IdleHtk == [pc |-> "idle", raw |-> <<>>, idx |-> 0, h |-> NoHolding]

IdleWorker == [pc |-> "idle", job |-> "none", val |-> 0]

IdlePool == [w \in 1..NWorkers |-> IdleWorker]

\* _token_cache = {"token": None, "expires_at": 0} and no token file
NoToken == [mem |-> 0, memOk |-> FALSE, file |-> 0, fileOk |-> FALSE, issued |-> 0]

\* run() before its first pass: state["status"] = "idle", was_market_open False
IdleDrv == [pc |-> "top", wasOpen |-> FALSE]

\* no order in front of the Order Reaper
NoAged == [pc |-> "none"]

\* no order being sized
NoSized == [pc |-> "none"]

\* no take-profit decision in hand
NoExit == [pc |-> "none"]

\* the market clock not read yet
NoClk == [pc |-> "none"]

\* saves under one cycle id are counted up to here: once, or more than once
MaxSaves == 2

\* _save_scanner_state: save_scan_results adds one record per row of
\* scan_results under the id in state["cycle_count"], and deletes none
SaveScannerState(n, results) ==
    IF results = <<>> THEN n ELSE Min(n + 1, MaxSaves)

\* _load_scanner_state puts the id of the last saved cycle in
\* state["cycle_count"]: that cycle was saved, once if nothing else wrote it
StoredSaves == IF buyPool # <<>> THEN 1 ELSE 0

\* the engine is constructed idle, with nothing in front of the single passes
CtlAtRest ==
    /\ status = "idle"
    /\ drv = IdleDrv
    /\ aged = NoAged
    /\ sized = NoSized
    /\ exit = NoExit
    /\ clk = NoClk
    /\ scans = StoredSaves

\* a row as analyze_stock builds it: no tracking_status, no buy_trade_type
FreshRows ==
    [ sym : Symbols, market : Markets, score : ScoreSet, price : ScanPrices,
      pkrw : {0}, tt : {"none"}, st : {"none"}, pred : {0},
      strat : {"pullback"}, live : {0}, act : {"BUY"}, risk : {5}, rqty : {1},
      oprice : {0} ]

\* a row that was admitted but saved before its first tracker tick
AdmittedRows ==
    [ sym : Symbols, market : Markets, score : ScoreSet, price : ScanPrices,
      pkrw : {0}, tt : Styles, st : {"none"}, pred : {0},
      strat : {"pullback"}, live : {0}, act : {"BUY"}, risk : {5}, rqty : {1},
      oprice : {0} ]

\* price_krw as run_scan_cycle stores it with the rate of the scan
WithPriceKrw(r, fx) ==
    [r EXCEPT !.pkrw = IF r.market = "KR" THEN r.price ELSE r.price * fx]

StoredRows ==
    {WithPriceKrw(r, fx) : r \in FreshRows \cup AdmittedRows,
                           fx \in FxQuotes}

-----------------------------------------------------------------------------
(* _track_candidates and process_individual_candidate                        *)

\* the filter at the top of a tracker tick
TrackerKeeps(r, act) == r.st \notin {"filled", "blacklisted"} /\ r.market \in act

\* the tracker moves on to the next entry of the list it iterates, or sleeps;
\* is_filled of the next entry is read as process_individual_candidate starts
Advance(t, it) ==
    IF t.idx < Len(t.list)
    THEN [IdleTrk EXCEPT !.pc = "quote", !.list = t.list, !.idx = t.idx + 1,
                         !.filled = (it[t.list[t.idx + 1]].st = "filled")]
    ELSE IdleTrk

Cur == trk.list[trk.idx]

\* a condition that treats every entry strategy as pullback
CheckPullbackOnly(r) ==
    /\ r.pred > 0
    /\ r.live > 0
    /\ r.st = "watching"
    /\ r.live <= r.pred

\* _check_buy_condition
CheckBuyCondition(r) ==
    /\ r.pred > 0
    /\ r.live > 0
    /\ r.st = "watching"
    /\ IF r.strat = "breakout" THEN r.live >= r.pred ELSE r.live <= r.pred

\* a buy check that does not read ENABLE_AUTO_BUY
BuyCheckUngated(it, i) ==
    IF ~CheckBuyCondition(it[i])
    THEN [it |-> it, pc |-> "next"]
    ELSE IF it[i].market \notin active
    THEN [it |-> [it EXCEPT ![i].st = "watching"], pc |-> "next"]
    ELSE [it |-> [it EXCEPT ![i].st = "ordering"], pc |-> "fresh"]

\* step 4 of process_individual_candidate and _execute_buy up to its first
\* await: the row and the position the tracker is left in
BuyCheck(it, i) ==
    IF ~CheckBuyCondition(it[i])
    THEN [it |-> it, pc |-> "next"]
    ELSE IF ~cfg.autoBuy \/ it[i].market \notin active
    THEN [it |-> [it EXCEPT ![i].st = "watching"], pc |-> "next"]
    ELSE [it |-> [it EXCEPT ![i].st = "ordering"], pc |-> "fresh"]

\* a tracker that asks for a prediction whether or not one is stored
NeedsPredictionWheneverBuy(r) == r.act = "BUY"
\* step 3 of process_individual_candidate: is a prediction requested
NeedsPrediction(r) == r.pred = 0 /\ r.act = "BUY"

\* HARD_STOP_LOSS_PERCENT, in percent
HardStopLossPercent == 0 - 5

\* the price live_change of a filled entry is measured from: order_price,
\* or the scan price where no order price is stored
ChangeBase(r) == IF r.oprice > 0 THEN r.oprice ELSE r.price

\* the hard stop of a filled entry: live_change <= HARD_STOP_LOSS_PERCENT
HardStop(r, live) ==
    /\ ChangeBase(r) > 0
    /\ 100 * (live - ChangeBase(r)) <= HardStopLossPercent * ChangeBase(r)

TrackerTick ==
    /\ trk.pc = "idle"
    /\ candidates # <<>>
    /\ status # "stopped"
    /\ LET kept == FilterSeq(candidates,
                       {i \in DOMAIN item : TrackerKeeps(item[i], active)})
       IN  /\ candidates' = kept
           /\ trk' = Advance([IdleTrk EXCEPT !.list = kept], item)
    /\ UNCHANGED <<item, buyPool, blacklist, holdings, cash, used, orders,
                   active, sel, rpr, cfg, failed, poolVars, holdVars, ctlVars>>

\* the live quote of step 1 arrives
TrackerQuote(q) ==
    /\ trk.pc = "quote"
    /\ LET i    == Cur
           live == IF q > 0 THEN q ELSE item[i].price
           it1  == IF live > 0 THEN [item EXCEPT ![i].live = live] ELSE item
       IN  IF trk.filled
           THEN /\ item' = IF HardStop(it1[i], live)
                           THEN [it1 EXCEPT ![i].st = "sold"] ELSE it1
                /\ trk' = Advance(trk, item')
           ELSE IF NeedsPrediction(it1[i])
           THEN /\ item' = [it1 EXCEPT ![i].st = "analyzing"]
                /\ trk' = [trk EXCEPT !.pc = "predict"]
           ELSE LET b == BuyCheck(it1, i)
                IN  /\ item' = b.it
                    /\ trk' = IF b.pc = "fresh" THEN [trk EXCEPT !.pc = "fresh"]
                              ELSE Advance(trk, item')
    /\ UNCHANGED <<buyPool, candidates, blacklist, holdings, cash, used, orders,
                   active, sel, rpr, cfg, failed, poolVars, holdVars, ctlVars>>

\* _update_candidate_with_prediction
UpdateCandidateWithPrediction(r, p, s, t) ==
    [r EXCEPT !.pred = p, !.strat = s, !.tt = t, !.risk = 5, !.rqty = 1,
              !.st = "watching"]

\* the answer of _predict_buy_timing arrives
TrackerPredict(p, s, t) ==
    /\ trk.pc = "predict"
    /\ LET i   == Cur
           it1 == IF p > 0
                  THEN [item EXCEPT ![i] = UpdateCandidateWithPrediction(item[i], p, s, t)]
                  ELSE [item EXCEPT ![i].st = "watching"]
           b   == BuyCheck(it1, i)
       IN  /\ item' = b.it
           /\ trk' = IF b.pc = "fresh" THEN [trk EXCEPT !.pc = "fresh"]
                     ELSE Advance(trk, item')
    /\ UNCHANGED <<buyPool, candidates, blacklist, holdings, cash, used, orders,
                   active, sel, rpr, cfg, failed, poolVars, holdVars, ctlVars>>

\* buy_trade_type as _execute_buy reads it: candidate.get("buy_trade_type", "스윙")
TradeType(r) == IF r.tt = "none" THEN "swing" ELSE r.tt

\* lot_size as _execute_buy settles it for a row without a lot_size of its own
LotSize(r) == DefaultLotSize(r.market)

\* the pre-order quote arrives; the budget is read and the order is sized.
\* For a foreign market the exchange rate is awaited next and the order is
\* sent after it; nothing the other tasks can see changes between the two.
TrackerFresh(q, fxq) ==
    /\ trk.pc = "fresh"
    /\ LET i      == Cur
           r      == item[i]
           ref    == IF r.pred > 0 THEN r.pred ELSE r.price
           fresh  == IF q > 0 THEN q ELSE ref
           t      == TradeType(r)
           avail  == StrategyAvail(cash, used[t], t)
           fx     == IF r.market = "KR" THEN 1 ELSE fxq
           qty    == BuyQty(avail, fx, fresh, r.risk, r.rqty, LotSize(r))
       IN  IF fresh <= 0 \/ Deviates(fresh, ref)
           THEN /\ item' = [item EXCEPT ![i].st = "watching"]
                /\ trk' = Advance(trk, item')
           ELSE IF avail <= 0 \/ qty = 0
           THEN /\ item' = [item EXCEPT ![i].st = "watching", ![i].live = fresh]
                /\ trk' = Advance(trk, item')
           ELSE /\ item' = [item EXCEPT ![i].live = fresh]
                /\ trk' = [trk EXCEPT !.pc = "place", !.qty = qty, !.price = fresh,
                                      !.fx = fx,
                                      !.budget = StrategyBudget(cash, t),
                                      !.usedRead = used[t]]
    /\ UNCHANGED <<buyPool, candidates, blacklist, holdings, cash, used, orders,
                   active, sel, rpr, cfg, failed, poolVars, holdVars, ctlVars>>

\* the broker's answers to an order: accepted, refused with a message that
\* holds one of permanent_errors, refused with another message
PlaceAnswers == {"ok", "permanent", "transient"}

\* the answer to the order arrives; on success the ledger is charged and
\* _refresh_cash is awaited
TrackerPlace(res, c) ==
    /\ trk.pc = "place"
    /\ res = "ok" => Len(orders) < MaxOrders
    /\ LET i == Cur
           r == item[i]
           t == TradeType(r)
       IN  /\ CASE res = "ok" ->
                     /\ orders' = Append(orders,
                            [sym |-> r.sym, market |-> r.market,
                             side |-> "buy", state |-> "open", old |-> FALSE,
                             tt |-> t,
                             krw |-> OrderKrw(trk.price, trk.qty, trk.fx)])
                     /\ item' = [item EXCEPT ![i].st =
                                    IF r.market = "KR" THEN "filled" ELSE "pending",
                                               ![i].oprice = trk.price]
                     /\ used' = [used EXCEPT ![t] = @ + OrderKrw(trk.price, trk.qty, trk.fx)]
                     /\ cash' = c
                     /\ UNCHANGED <<blacklist, failed>>
                [] res = "permanent" ->
                     /\ blacklist' = blacklist \cup {r.sym}
                     /\ failed' = failed \cup {r.sym}
                     /\ item' = [item EXCEPT ![i].st = "blacklisted"]
                     /\ UNCHANGED <<orders, used, cash>>
                [] OTHER ->
                     /\ item' = [item EXCEPT ![i].st = "watching"]
                     /\ UNCHANGED <<orders, used, cash, blacklist, failed>>
           /\ trk' = Advance(trk, item')
    /\ scans' = IF res = "ok" THEN SaveScannerState(scans, buyPool) ELSE scans
    /\ UNCHANGED <<buyPool, candidates, holdings, active, sel, rpr, cfg, poolVars, holdVars,
                   status, drv, aged, sized, exit, clk>>

-----------------------------------------------------------------------------
(* _auto_cancel_pending                                                      *)

RECURSIVE PendingOf(_, _, _)
\* the open orders of one kind, oldest first, as indices of the order book
PendingOf(os, k, dom) ==
    IF k > Len(os) THEN <<>>
    ELSE IF os[k].state = "open" /\ ((os[k].market = "KR") = dom)
         THEN <<k>> \o PendingOf(os, k + 1, dom)
         ELSE PendingOf(os, k + 1, dom)

\* pending_orders: the domestic answer, then the overseas one
PendingOrders(os) == PendingOf(os, 1, TRUE) \o PendingOf(os, 1, FALSE)

\* the orders of the answer the loop does not skip: elapsed >= 60
Overdue(os) == FilterSeq(PendingOrders(os), {k \in DOMAIN os : os[k].old})

RECURSIVE FirstWithSymbol(_, _, _)
\* next((c for c in self.candidates if c.symbol == symbol), None); 0 for None
FirstWithSymbol(it, cands, sy) ==
    IF cands = <<>> THEN 0
    ELSE IF it[Head(cands)].sym = sy THEN Head(cands)
    ELSE FirstWithSymbol(it, Tail(cands), sy)

\* what a successful cancel does to the candidate rows
ReaperUpdate(it, cands, sy) ==
    LET target == FirstWithSymbol(it, cands, sy)
    IN  IF target # 0 THEN [it EXCEPT ![target].st = "watching"] ELSE it

\* the two pending-order queries are answered
ReaperPoll ==
    /\ rpr.pc = "idle"
    /\ Overdue(orders) # <<>>
    /\ rpr' = [pc |-> "cancel", list |-> Overdue(orders), idx |-> 1]
    /\ UNCHANGED <<item, buyPool, candidates, blacklist, holdings, cash, used,
                   orders, active, sel, trk, cfg, failed, poolVars, holdVars,
                   ctlVars>>

\* the answer to one cancel request arrives; on success _refresh_cash is awaited
ReaperCancel(ok, c) ==
    /\ rpr.pc = "cancel"
    /\ LET k == rpr.list[rpr.idx]
       IN  /\ ok => orders[k].state = "open"
           /\ IF ok
              THEN /\ orders' = [orders EXCEPT ![k].state = "cancelled"]
                   /\ item' = ReaperUpdate(item, candidates, orders[k].sym)
                   /\ cash' = c
              ELSE UNCHANGED <<orders, item, cash>>
    /\ rpr' = IF rpr.idx < Len(rpr.list) THEN [rpr EXCEPT !.idx = @ + 1]
              ELSE IdleRpr
    /\ UNCHANGED <<buyPool, candidates, blacklist, holdings, used, active, sel,
                   trk, cfg, failed, poolVars, holdVars, ctlVars>>

-----------------------------------------------------------------------------
(* run_scan_cycle, the broker and the clock                                  *)

\* the body of one market of a scan cycle
ScanEffect(c) ==
    /\ cash' = c
    /\ \E grow \in BOOLEAN :
          /\ grow => Len(buyPool) < NItems
          /\ buyPool' = IF grow THEN Append(buyPool, Len(buyPool) + 1) ELSE buyPool
    /\ candidates' = RefineCandidates(item, buyPool', candidates, holdings,
                                      blacklist, c)

\* one market of a scan cycle: _refresh_cash, then the analysed row joins
\* scan_results and _buy_pool, then _refine_candidates
ScanMarket(c) ==
    /\ active # {}
    /\ ScanEffect(c)
    /\ UNCHANGED <<item, blacklist, holdings, used, orders, active, sel, trk,
                   rpr, cfg, failed, poolVars, holdVars, ctlVars>>

\* the exchange fills an open order
BrokerFill(k) ==
    /\ orders[k].state = "open"
    /\ orders' = [orders EXCEPT ![k].state = "filled"]
    /\ UNCHANGED <<item, buyPool, candidates, blacklist, holdings, cash, used,
                   active, sel, trk, rpr, cfg, failed, poolVars, holdVars,
                   ctlVars>>

\* an open order becomes sixty seconds old
OrderAges(k) ==
    /\ orders[k].state = "open"
    /\ ~orders[k].old
    /\ orders' = [orders EXCEPT ![k].old = TRUE]
    /\ UNCHANGED <<item, buyPool, candidates, blacklist, holdings, cash, used,
                   active, sel, trk, rpr, cfg, failed, poolVars, holdVars,
                   ctlVars>>

\* what get_active_markets() can answer: by MARKET_HOURS_KST the home market
\* (09:00-15:30) and the US market (23:30-06:00) are never open together
ActiveSets == {{}, {"KR"}, {"US"}}

\* a market opens or closes: get_active_markets() changes its answer
ClockMoves(a) ==
    /\ a # active
    /\ a = {} \/ active = {}
    /\ active' = a
    /\ UNCHANGED <<item, buyPool, candidates, blacklist, holdings, cash, used,
                   orders, sel, trk, rpr, cfg, failed, poolVars, holdVars,
                   ctlVars>>

-----------------------------------------------------------------------------
(* The engine after __init__                                                 *)

\* _load_scanner_state: the rows of the last saved cycle flagged is_candidate
\* become _buy_pool, cash is refreshed and _refine_candidates runs once.  Rows
\* behind the restored ones are the rows later scan cycles will analyse.
Init ==
    /\ item \in [1..NItems -> StoredRows]
    /\ item[1].sym = "A"
    /\ \A j, k \in 1..NItems : item[j].sym = item[k].sym => item[j].market = item[k].market
    /\ \E n \in 0..NItems :
          /\ buyPool = [k \in 1..n |-> k]
          /\ \A k \in (n + 1)..NItems : item[k].tt = "none"
    /\ cash \in CashSet
    /\ blacklist = {}
    /\ holdings = <<>>
    /\ candidates = RefineCandidates(item, buyPool, <<>>, holdings, blacklist, cash)
    /\ used = [t \in Styles |-> 0]
    /\ orders = <<>>
    /\ active \in ActiveSets
    /\ sel = IdleSel
    /\ trk = IdleTrk
    /\ rpr = IdleRpr
    /\ cfg \in [autoBuy : BOOLEAN, autoSell : {FALSE}]
    /\ failed = {}
    /\ wk = IdlePool
    /\ tok = NoToken
    /\ fxc = FALSE
    /\ pos = {}
    /\ htk = IdleHtk
    /\ retired = {}
    /\ CtlAtRest

Next ==
    \/ TrackerTick
    \/ \E q \in Quotes : TrackerQuote(q)
    \/ \E p \in PredAnswers, s \in StratAnswers, t \in Styles :
          TrackerPredict(p, s, t)
    \/ \E q \in Quotes, fx \in FxQuotes : TrackerFresh(q, fx)
    \/ \E res \in PlaceAnswers, c \in CashSet : TrackerPlace(res, c)
    \/ ReaperPoll
    \/ \E ok \in BOOLEAN, c \in CashSet : ReaperCancel(ok, c)
    \/ \E c \in CashSet : ScanMarket(c)
    \/ \E k \in DOMAIN orders : BrokerFill(k)
    \/ \E k \in DOMAIN orders : OrderAges(k)
    \/ \E a \in ActiveSets : ClockMoves(a)

Spec == Init /\ [][Next]_vars

-----------------------------------------------------------------------------
(* Properties of the candidate engine                                        *)

\* a row without a tracking_status counts as watching
StatusOf(r) == IF r.st = "none" THEN "watching" ELSE r.st

OpenBuys(sy) ==
    {k \in DOMAIN orders :
        orders[k].sym = sy /\ orders[k].side = "buy" /\ orders[k].state = "open"}

InFlight(sy) ==
    {k \in 1..Len(candidates) :
        item[candidates[k]].sym = sy
        /\ item[candidates[k]].st \in {"ordering", "pending"}}

\* C1: for every symbol at most one candidate is ordering or pending and at
\* most one buy order of the system is open at the broker
C1_AtMostOneOpenBuy ==
    \A sy \in Symbols : Cardinality(InFlight(sy)) <= 1 /\ Cardinality(OpenBuys(sy)) <= 1

\* C1, the second half alone: two buy orders for one symbol are open together
C1_TwoOpenBuys == \E sy \in Symbols : Cardinality(OpenBuys(sy)) >= 2

\* C2: when _execute_buy sends a buy order, the ledger entry of the style it
\* read plus the won cost of the order is within the budget of the style it read
C2_OrderWithinStyleBudget ==
    trk.pc = "place" =>
        trk.usedRead + OrderKrw(trk.price, trk.qty, trk.fx) <= trk.budget

\* C4: a candidate whose status is sold or blacklisted keeps that status
C4_TerminalStatusKept ==
    [][\A i \in DOMAIN item :
          item[i].st \in {"sold", "blacklisted"} => item'[i].st = item[i].st]_vars

\* the declared edges of the candidate status machine
DeclaredEdge(a, b) ==
    \/ a = "watching" /\ b \in {"analyzing", "ordering"}
    \/ a = "analyzing" /\ b = "watching"
    \/ a = "ordering" /\ b \in {"watching", "pending", "filled", "blacklisted"}
    \/ a = "pending" /\ b \in {"watching", "filled", "blacklisted"}
    \/ a = "filled" /\ b = "sold"

StatusNames ==
    {"watching", "analyzing", "ordering", "pending", "filled", "blacklisted", "sold"}

\* a status change made between two suspension points follows declared edges
AlongDeclaredEdges(a, b) ==
    \/ a = b
    \/ DeclaredEdge(a, b)
    \/ \E c \in StatusNames : DeclaredEdge(a, c) /\ DeclaredEdge(c, b)
    \/ \E c, d \in StatusNames :
          DeclaredEdge(a, c) /\ DeclaredEdge(c, d) /\ DeclaredEdge(d, b)

\* C6: the status of a candidate changes only along the declared edges
C6_OnlyDeclaredEdges ==
    [][\A i \in DOMAIN item :
          AlongDeclaredEdges(StatusOf(item[i]), StatusOf(item'[i]))]_vars

\* C7: a positive predicted entry price is never overwritten, and a prediction
\* is requested only for a candidate that has none
C7_PredictedOnce ==
    [][/\ \A i \in DOMAIN item : item[i].pred > 0 => item'[i].pred = item[i].pred
       /\ (trk'.pc = "predict" /\ trk.pc # "predict")
             => item[trk'.list[trk'.idx]].pred = 0]_vars

\* C7 witness: a prediction has been stored and the tracker visits the candidate again
C7_Witness ==
    /\ trk.pc = "quote"
    /\ item[Cur].pred > 0
    /\ item[Cur].st = "watching"

\* C8: after a permanent failure of a buy for a symbol, the allocator admits no
\* row of that symbol and no buy order is sent for it
C8_BlacklistedNeverBought ==
    [][/\ Len(orders') > Len(orders) => orders'[Len(orders')].sym \notin failed
       /\ \A i \in SeqToSet(candidates') \ SeqToSet(candidates) :
             item[i].sym \notin failed]_vars

-----------------------------------------------------------------------------
(* select_balanced_portfolio on its own: one call of _refine_candidates,     *)
(* the while loop taken one pass at a time                                   *)

SelScores == {60, 80}
SelPrices == {100, 300}
SelCash == {300, 500}

SelRows ==
    [ sym : Symbols, market : {"KR"}, score : SelScores, price : SelPrices,
      pkrw : {0}, tt : {"none"} \cup Styles, st : {"none", "watching"},
      pred : {0}, strat : {"pullback"}, live : {0}, act : {"BUY"}, risk : {5},
      rqty : {1},
      oprice : {0} ]

\* the pool of the call; its first row may be tracked already.  The names of
\* the two symbols are interchangeable, and the selection drops an untyped row
\* without reading its score, so one score and price stand for all of them.
InitSel ==
    /\ item \in [1..NSel -> {WithPriceKrw(r, 1) : r \in SelRows}]
    /\ item[1].sym = "A"
    /\ \A k \in 1..NSel :
          item[k].tt = "none" => item[k].score = 60 /\ item[k].price = 100
    /\ buyPool = [k \in 1..NSel |-> k]
    /\ candidates \in {<<>>, <<1>>}
    /\ \A k \in 1..NSel :
          item[k].st = "watching" <=> (k = 1 /\ candidates = <<1>> /\ item[k].tt # "none")
    /\ cash \in SelCash
    /\ blacklist = {}
    /\ holdings = <<>>
    /\ sel = SelStart(item, Affordable(item, buyPool, cash), candidates,
                      holdings, blacklist, cash)
    /\ used = [t \in Styles |-> 0]
    /\ orders = <<>>
    /\ active = {"KR"}
    /\ trk = IdleTrk
    /\ rpr = IdleRpr
    /\ cfg = [autoBuy |-> FALSE, autoSell |-> FALSE]
    /\ failed = {}
    /\ wk = IdlePool
    /\ tok = NoToken
    /\ fxc = FALSE
    /\ pos = {}
    /\ htk = IdleHtk
    /\ retired = {}
    /\ CtlAtRest

\* one pass of the while loop
SelLoop ==
    /\ sel.run
    /\ ~sel.done
    /\ sel' = SelStep(item, sel)
    /\ UNCHANGED <<item, buyPool, candidates, blacklist, holdings, cash, used,
                   orders, active, trk, rpr, cfg, failed, poolVars, holdVars,
                   ctlVars>>

\* the call returns and _refine_candidates rebuilds self.candidates
SelReturn ==
    /\ sel.run
    /\ sel.done
    /\ candidates' = RefinedList(item, candidates, sel.sel)
    /\ sel' = [sel EXCEPT !.run = FALSE]
    /\ UNCHANGED <<item, buyPool, blacklist, holdings, cash, used, orders,
                   active, trk, rpr, cfg, failed, poolVars, holdVars, ctlVars>>

NextSel == SelLoop \/ SelReturn

SpecSel == InitSel /\ [][NextSel]_vars

RECURSIVE SumMinCost(_, _)
SumMinCost(it, s) ==
    IF s = <<>> THEN 0 ELSE MinCost(it[Head(s)]) + SumMinCost(it, Tail(s))

\* C3: the minimum lot costs of the rows a run of the selection has admitted
\* sum to at most the cash the run was given
C3_AdmittedWithinCash == sel.run => SumMinCost(item, sel.sel) <= sel.cash

\* C3 witness: a finished run that admitted two rows and turned an affordable,
\* typed row of an unseen symbol away
C3_Witness ==
    /\ sel.run /\ sel.done
    /\ Len(sel.sel) >= 2
    /\ \E i \in DOMAIN item :
          /\ item[i].tt \in Styles
          /\ IsAffordable(item[i], sel.cash)
          /\ item[i].sym \notin SeenSymbols(item, candidates)
          /\ i \notin SeqToSet(sel.sel)

-----------------------------------------------------------------------------
(* The worker pool: every broker call of the tasks is handed to a thread of  *)
(* self._executor with run_in_executor.  A thread runs a job statement by    *)
(* statement, interleaved with the other threads and with the event loop.    *)

\* the jobs the tasks hand over: _refresh_cash and a plain broker call
\* (a quote, an order, a cancel)
Jobs == {"refresh", "call"}

\* a task hands a job to a free thread
Dispatch(w, j) ==
    /\ wk[w].pc = "idle"
    /\ wk' = [wk EXCEPT ![w] = [pc |-> "memcheck", job |-> j, val |-> 0]]
    /\ UNCHANGED <<engineVars, cash, tok, fxc, ctlVars>>

\* the memory cache test of get_access_token
TokenMemoryHit == tok.mem # 0 /\ tok.memOk

\* get_access_token, step 1: the memory cache
TokenMemCheck(w) ==
    /\ wk[w].pc = "memcheck"
    /\ wk' = [wk EXCEPT ![w].pc = IF TokenMemoryHit THEN "http" ELSE "filecheck"]
    /\ UNCHANGED <<engineVars, cash, tok, fxc, ctlVars>>

\* get_access_token, step 2: the token file
TokenFileCheck(w) ==
    /\ wk[w].pc = "filecheck"
    /\ IF tok.file # 0 /\ tok.fileOk
       THEN /\ tok' = [tok EXCEPT !.mem = tok.file, !.memOk = TRUE]
            /\ wk' = [wk EXCEPT ![w].pc = "http"]
       ELSE /\ wk' = [wk EXCEPT ![w].pc = "post"]
            /\ UNCHANGED tok
    /\ UNCHANGED <<engineVars, cash, fxc, ctlVars>>

\* get_access_token, step 3: the answer to requests.post(.../oauth2/tokenP).
\* Without a token _headers returns {} and the broker call yields nothing.
TokenPost(w, ok) ==
    /\ wk[w].pc = "post"
    /\ ok => tok.issued < MaxIssued
    /\ IF ok
       THEN /\ tok' = [mem |-> tok.issued + 1, memOk |-> TRUE,
                       file |-> tok.issued + 1, fileOk |-> TRUE,
                       issued |-> tok.issued + 1]
            /\ wk' = [wk EXCEPT ![w].pc = "http"]
       ELSE /\ UNCHANGED tok
            /\ wk' = [wk EXCEPT ![w] =
                        IF wk[w].job = "refresh"
                        THEN [pc |-> "write", job |-> "refresh", val |-> 0]
                        ELSE IdleWorker]
    /\ UNCHANGED <<engineVars, cash, fxc, ctlVars>>

\* the broker answers the call; _refresh_cash goes on to _fetch_fx_rate("US")
BrokerAnswer(w, c) ==
    /\ wk[w].pc = "http"
    /\ wk' = [wk EXCEPT ![w] =
                IF wk[w].job = "refresh"
                THEN [pc |-> "fx", job |-> "refresh", val |-> c]
                ELSE IdleWorker]
    /\ UNCHANGED <<engineVars, cash, tok, fxc, ctlVars>>

\* _fetch_fx_rate: a fresh cache entry is returned, else the rate is fetched
FxLookup(w) ==
    /\ wk[w].pc = "fx"
    /\ wk' = [wk EXCEPT ![w].pc = IF fxc THEN "write" ELSE "fxstore"]
    /\ UNCHANGED <<engineVars, cash, tok, fxc, ctlVars>>

\* _fetch_fx_rate: self._fx_cache[market] = {...}
FxStore(w) ==
    /\ wk[w].pc = "fxstore"
    /\ fxc' = TRUE
    /\ wk' = [wk EXCEPT ![w].pc = "write"]
    /\ UNCHANGED <<engineVars, cash, tok, ctlVars>>

\* _refresh_cash: self._available_cash = ...
CashStore(w) ==
    /\ wk[w].pc = "write"
    /\ cash' = wk[w].val
    /\ wk' = [wk EXCEPT ![w] = IdleWorker]
    /\ UNCHANGED <<engineVars, tok, fxc, ctlVars>>

\* the clock passes expires_at of the token, or the hour of the rate
TokenExpires ==
    /\ tok.memOk \/ tok.fileOk
    /\ tok' = [tok EXCEPT !.memOk = FALSE, !.fileOk = FALSE]
    /\ UNCHANGED <<engineVars, cash, wk, fxc, ctlVars>>

RateExpires ==
    /\ fxc
    /\ fxc' = FALSE
    /\ UNCHANGED <<engineVars, cash, wk, tok, ctlVars>>

InitPool ==
    /\ item = [k \in 1..NItems |-> CHOOSE r \in StoredRows : TRUE]
    /\ buyPool = <<>>
    /\ candidates = <<>>
    /\ blacklist = {}
    /\ holdings = <<>>
    /\ cash \in CashSet
    /\ used = [t \in Styles |-> 0]
    /\ orders = <<>>
    /\ active = {"KR"}
    /\ sel = IdleSel
    /\ trk = IdleTrk
    /\ rpr = IdleRpr
    /\ cfg = [autoBuy |-> FALSE, autoSell |-> FALSE]
    /\ failed = {}
    /\ wk = IdlePool
    /\ tok \in {NoToken, [NoToken EXCEPT !.file = 1, !.issued = 1],
                [NoToken EXCEPT !.file = 1, !.fileOk = TRUE, !.issued = 1]}
    /\ fxc = FALSE
    /\ pos = {}
    /\ htk = IdleHtk
    /\ retired = {}
    /\ CtlAtRest

NextPool ==
    \/ \E w \in 1..NWorkers, j \in Jobs : Dispatch(w, j)
    \/ \E w \in 1..NWorkers : TokenMemCheck(w)
    \/ \E w \in 1..NWorkers : TokenFileCheck(w)
    \/ \E w \in 1..NWorkers, ok \in BOOLEAN : TokenPost(w, ok)
    \/ \E w \in 1..NWorkers, c \in CashSet : BrokerAnswer(w, c)
    \/ \E w \in 1..NWorkers : FxLookup(w)
    \/ \E w \in 1..NWorkers : FxStore(w)
    \/ \E w \in 1..NWorkers : CashStore(w)
    \/ TokenExpires
    \/ RateExpires

SpecPool == InitPool /\ [][NextPool]_vars

\* the threads that stand at a write to state the tasks share
WorkerWriters == {w \in 1..NWorkers : wk[w].pc \in {"write", "fxstore"}}

\* the threads with a token request in flight
TokenRequests == {w \in 1..NWorkers : wk[w].pc = "post"}

\* C9: no thread of the worker pool writes the state the tasks share (the
\* available cash, the FX cache), so no two executions write it together
C9_NoWorkerWrites == WorkerWriters = {}

\* C9, two writers together: two threads stand at the write of _available_cash
C9_TwoWriters == Cardinality({w \in 1..NWorkers : wk[w].pc = "write"}) >= 2

\* C10: at most one token-issuance request is in flight
C10_OneTokenRequest == Cardinality(TokenRequests) <= 1

-----------------------------------------------------------------------------
(* _track_holdings and _execute_sell                                         *)

\* the account: A is held at NASD, B at KRX; the overseas answer comes first
AccountOrder == <<"A", "B">>
MarketOfHolding(sy) == IF sy = "A" THEN "US" ELSE "KR"
\* avg_price of every position in the broker's answer
AvgPrices == {100}
AvgPrice == CHOOSE a \in AvgPrices : TRUE
\* live quotes of a position; 0 stands for a failed quote
HoldQuotes == {0, 90, 120}
\* answers of _predict_sell_timing; price 0 stands for no answer
SellAnswers ==
    { [price |-> 0, stop |-> 0, action |-> "HOLD"],
      [price |-> 110, stop |-> 95, action |-> "SELL"],
      [price |-> 110, stop |-> 95, action |-> "HOLD"] }

\* fee_rate of OVERSEAS_FEE_RATES in ten-thousandths; NASD and the default
\* entry (used for KRX) charge 0.25 % each way and no tax
FeeRateBp(m) == 25

\* calculate_net_profit(...)["profitable"] for one share
Profitable(buy, sell, m) ==
    10000 * (sell - buy) - FeeRateBp(m) * buy - FeeRateBp(m) * sell > 0

RECURSIVE IndexOfSymbol(_, _, _)
\* the place of the first holding with the symbol, 0 if there is none
IndexOfSymbol(hs, sy, k) ==
    IF k > Len(hs) THEN 0
    ELSE IF hs[k].sym = sy THEN k
    ELSE IndexOfSymbol(hs, sy, k + 1)

\* "holdings 리스트 업데이트": replace the existing entry or append.  The
\* stored price is not kept: every tick takes the price from the broker row
\* and the live quote.
StoreHolding(hs, h) ==
    LET k == IndexOfSymbol(hs, h.sym, 1)
    IN  IF k # 0 THEN [hs EXCEPT ![k] = [h EXCEPT !.cur = 0]]
        ELSE Append(hs, [h EXCEPT !.cur = 0])

RECURSIVE SoldOrListed(_, _)
\* step 5 of a tick: keep what the broker listed and what is sold
SoldOrListed(hs, syms) ==
    IF hs = <<>> THEN <<>>
    ELSE IF Head(hs).sym \in syms \/ Head(hs).st = "sold"
         THEN <<Head(hs)>> \o SoldOrListed(Tail(hs), syms)
         ELSE SoldOrListed(Tail(hs), syms)

\* h_data as the tick builds it from the broker row and the existing entry
HoldingData(hs, sy, cur) ==
    LET k == IndexOfSymbol(hs, sy, 1)
    IN  IF k # 0
        THEN [hs[k] EXCEPT !.cur = cur]
        ELSE [sym |-> sy, market |-> MarketOfHolding(sy), st |-> "watching",
              sellPrice |-> 0, stop |-> 0, action |-> "", tt |-> "none",
              cur |-> cur]

\* the take-profit branch of step 4
TakeProfit(h) ==
    /\ h.sellPrice > 0 /\ h.cur >= h.sellPrice
    /\ h.st = "watching"
    /\ h.action = "SELL"

\* the stop-loss branch of step 4
StopLoss(h) == h.stop > 0 /\ h.cur <= h.stop /\ h.st = "watching"

\* does step 4 call _execute_sell
SellTriggered(h) ==
    IF TakeProfit(h) THEN Profitable(AvgPrice, h.cur, h.market) ELSE StopLoss(h)

\* the holding is put back and the loop goes to the next broker row; after
\* the last row the list is filtered
HoldNext(hs, t) ==
    IF t.idx < Len(t.raw)
    THEN [hs |-> hs, t |-> [t EXCEPT !.pc = "quote", !.idx = t.idx + 1, !.h = NoHolding]]
    ELSE [hs |-> SoldOrListed(hs, SeqToSet(t.raw)), t |-> IdleHtk]

\* step 4 and _execute_sell up to the order: what is left of the tick
HoldDecide(hs, t, h) ==
    IF ~SellTriggered(h) THEN HoldNext(StoreHolding(hs, h), t)
    ELSE IF ~cfg.autoSell \/ h.market \notin active
    THEN HoldNext(StoreHolding(hs, [h EXCEPT !.st = "watching"]), t)
    ELSE [hs |-> hs, t |-> [t EXCEPT !.pc = "sell", !.h = [h EXCEPT !.st = "selling"]]]

\* the two balance queries are answered; a failed query adds nothing
HoldPoll(okOverseas, okDomestic) ==
    /\ htk.pc = "idle"
    /\ status # "stopped"
    /\ LET listed == {sy \in pos : IF MarketOfHolding(sy) = "KR" THEN okDomestic
                                   ELSE okOverseas}
           raw == FilterSeq(AccountOrder, listed)
       IN  IF raw = <<>>
           THEN /\ holdings' = <<>>
                /\ htk' = IdleHtk
           ELSE /\ holdings' = holdings
                /\ htk' = [IdleHtk EXCEPT !.pc = "quote", !.raw = raw, !.idx = 1]
    /\ UNCHANGED <<item, buyPool, candidates, blacklist, cash, used, orders,
                   active, sel, trk, rpr, cfg, failed, poolVars, pos, retired,
                   ctlVars>>

\* the live quote of a broker row arrives
HoldQuote(q) ==
    /\ htk.pc = "quote"
    /\ LET sy  == htk.raw[htk.idx]
           cur == IF q > 0 THEN q ELSE AvgPrice
           h   == HoldingData(holdings, sy, cur)
       IN  IF h.st = "sold"
           THEN /\ holdings' = HoldNext(StoreHolding(holdings, h), htk).hs
                /\ htk' = HoldNext(StoreHolding(holdings, h), htk).t
           ELSE IF h.sellPrice = 0 /\ h.st = "watching"
           THEN /\ holdings' = holdings
                /\ htk' = [htk EXCEPT !.pc = "predict", !.h = [h EXCEPT !.st = "analyzing"]]
           ELSE /\ holdings' = HoldDecide(holdings, htk, h).hs
                /\ htk' = HoldDecide(holdings, htk, h).t
    /\ UNCHANGED <<item, buyPool, candidates, blacklist, cash, used, orders,
                   active, sel, trk, rpr, cfg, failed, poolVars, pos, retired,
                   ctlVars>>

\* the answer of _predict_sell_timing arrives
HoldPredict(a) ==
    /\ htk.pc = "predict"
    /\ LET h == IF a.price > 0
                THEN [htk.h EXCEPT !.sellPrice = a.price, !.stop = a.stop,
                                   !.action = a.action, !.tt = "swing",
                                   !.st = "watching"]
                ELSE [htk.h EXCEPT !.st = "watching"]
       IN  /\ holdings' = HoldDecide(holdings, htk, h).hs
           /\ htk' = HoldDecide(holdings, htk, h).t
    /\ UNCHANGED <<item, buyPool, candidates, blacklist, cash, used, orders,
                   active, sel, trk, rpr, cfg, failed, poolVars, pos, retired,
                   ctlVars>>

\* the answer to the sell order arrives; on success _refresh_cash is awaited
HoldSell(ok, c) ==
    /\ htk.pc = "sell"
    /\ ok => Len(orders) < MaxOrders
    /\ LET h == [htk.h EXCEPT !.st = IF ok THEN "sold" ELSE "watching"]
       IN  /\ holdings' = HoldNext(StoreHolding(holdings, h), htk).hs
           /\ htk' = HoldNext(StoreHolding(holdings, h), htk).t
           /\ orders' = IF ok
                        THEN Append(orders, [sym |-> h.sym, market |-> h.market,
                                 side |-> "sell", state |-> "open", old |-> FALSE,
                                 tt |-> "none", krw |-> 0])
                        ELSE orders
           /\ cash' = IF ok THEN c ELSE cash
           /\ retired' = IF ok THEN retired \cup {h.sym} ELSE retired
    /\ UNCHANGED <<item, buyPool, candidates, blacklist, used, active, sel, trk,
                   rpr, cfg, failed, poolVars, pos, ctlVars>>

\* a sell order is filled: the position leaves the account
SellFills(k) ==
    /\ orders[k].state = "open"
    /\ orders[k].side = "sell"
    /\ orders' = [orders EXCEPT ![k].state = "filled"]
    /\ pos' = pos \ {orders[k].sym}
    /\ retired' = retired \ {orders[k].sym}
    /\ UNCHANGED <<item, buyPool, candidates, blacklist, holdings, cash, used,
                   active, sel, trk, rpr, cfg, failed, poolVars, htk, ctlVars>>

\* a position enters the account
PositionOpens(sy) ==
    /\ sy \notin pos
    /\ pos' = pos \cup {sy}
    /\ UNCHANGED <<item, buyPool, candidates, blacklist, holdings, cash, used,
                   orders, active, sel, trk, rpr, cfg, failed, poolVars, htk,
                   retired, ctlVars>>

InitHold ==
    /\ item = [k \in 1..NItems |-> CHOOSE r \in StoredRows : TRUE]
    /\ buyPool = <<>>
    /\ candidates = <<>>
    /\ blacklist = {}
    /\ holdings = <<>>
    /\ cash \in CashSet
    /\ used = [t \in Styles |-> 0]
    /\ orders = <<>>
    /\ active \in ActiveSets
    /\ sel = IdleSel
    /\ trk = IdleTrk
    /\ rpr = IdleRpr
    /\ cfg \in [autoBuy : {FALSE}, autoSell : BOOLEAN]
    /\ failed = {}
    /\ wk = IdlePool
    /\ tok = NoToken
    /\ fxc = FALSE
    /\ pos \in SUBSET Symbols
    /\ htk = IdleHtk
    /\ retired = {}
    /\ CtlAtRest

NextHold ==
    \/ \E a, b \in BOOLEAN : HoldPoll(a, b)
    \/ \E q \in HoldQuotes : HoldQuote(q)
    \/ \E a \in SellAnswers : HoldPredict(a)
    \/ \E ok \in BOOLEAN, c \in CashSet : HoldSell(ok, c)
    \/ \E k \in DOMAIN orders : SellFills(k)
    \/ \E sy \in Symbols : PositionOpens(sy)
    \/ \E a \in ActiveSets : ClockMoves(a)

SpecHold == InitHold /\ [][NextHold]_vars

\* C5: a holding that was sold, and whose position is still in the account,
\* stays sold: it is not tracked as watching, analyzing or selling again
C5_SoldStaysSold ==
    /\ \A k \in 1..Len(holdings) :
          holdings[k].sym \in retired => holdings[k].st = "sold"
    /\ htk.h.sym \in retired => htk.h.st = "sold"


-----------------------------------------------------------------------------
(* run(): the Scan Driver and the operator's controls                        *)

\* the variables of the single passes, which the loops leave alone
passVars == <<aged, sized, exit, clk, scans>>

\* what _db.get_setting("ENABLE_AUTO_SCAN", "1") does: it answers "1", it
\* answers another value, or the storage error leaves its try/finally
SettingAnswers == {"1", "0", "raises"}

\* a pass of `while True` that finds the flag stopped or paused only sleeps
DriverWaits ==
    /\ drv.pc = "top"
    /\ status \in {"stopped", "paused"}
    /\ drv' = [drv EXCEPT !.pc = "sleep"]
    /\ UNCHANGED <<coreVars, status, passVars>>

\* a pass with a market open, up to the first await of run_scan_cycle: with
\* the scan switched off the cycle returns at once and the pass ends idle;
\* an error of get_setting leaves run(), which catches nothing
DriverScanStarts(ans) ==
    /\ drv.pc = "top"
    /\ status \notin {"stopped", "paused"}
    /\ active # {}
    /\ status' = IF ans = "0" THEN "idle" ELSE "scanning"
    /\ drv' = [pc |-> CASE ans = "1" -> "scan"
                        [] ans = "0" -> "sleep"
                        [] OTHER -> "dead",
               wasOpen |-> TRUE]
    /\ scans' = IF ans = "1" THEN 0 ELSE scans
    /\ UNCHANGED <<coreVars, aged, sized, exit, clk>>

\* the awaited part of run_scan_cycle ends and run() writes the flag
DriverScanDone(c) ==
    /\ drv.pc = "scan"
    /\ ScanEffect(c)
    /\ status' = "idle"
    /\ drv' = [drv EXCEPT !.pc = "sleep"]
    /\ scans' = SaveScannerState(scans, buyPool')
    /\ UNCHANGED <<item, blacklist, holdings, used, orders, active, sel, trk,
                   rpr, cfg, failed, poolVars, holdVars, aged, sized, exit, clk>>

\* closing_analysis: the BUY rows of scan_results by score become _buy_pool
ClosingPool == SortByScore(item, buyPool)

\* a pass with every market closed: closing_analysis after the first close
DriverOffMarket ==
    /\ drv.pc = "top"
    /\ status \notin {"stopped", "paused"}
    /\ active = {}
    /\ IF drv.wasOpen /\ buyPool # <<>>
       THEN /\ buyPool' = ClosingPool
            /\ candidates' = RefineCandidates(item, ClosingPool, candidates,
                                              holdings, blacklist, cash)
       ELSE UNCHANGED <<buyPool, candidates>>
    /\ status' = "idle"
    /\ drv' = [pc |-> "sleep", wasOpen |-> FALSE]
    /\ scans' = IF drv.wasOpen THEN SaveScannerState(scans, buyPool') ELSE scans
    /\ UNCHANGED <<item, blacklist, holdings, cash, used, orders, active, sel,
                   trk, rpr, cfg, failed, poolVars, holdVars, aged, sized, exit,
                   clk>>

\* asyncio.sleep returns
DriverWakes ==
    /\ drv.pc = "sleep"
    /\ drv' = [drv EXCEPT !.pc = "top"]
    /\ UNCHANGED <<coreVars, status, passVars>>

\* stop()
Stop ==
    /\ status # "stopped"
    /\ status' = "stopped"
    /\ UNCHANGED <<coreVars, drv, passVars>>

\* pause()
Pause ==
    /\ status # "paused"
    /\ status' = "paused"
    /\ UNCHANGED <<coreVars, drv, passVars>>

\* resume()
Resume ==
    /\ status # "idle"
    /\ status' = "idle"
    /\ UNCHANGED <<coreVars, drv, passVars>>

\* the engine restored with one row of the home market tracked, auto-buy on;
\* the rows behind it are rows of other symbols the scan cycles will analyse
InitLoop ==
    /\ Init
    /\ cfg.autoBuy
    /\ cash = 400
    /\ active = {"KR"}
    /\ Len(buyPool) = 1
    /\ item[1].tt = "day"
    /\ \A k \in 1..NItems : item[k].market = "KR"
    /\ \A k \in 2..NItems : item[k].sym # "A"

NextLoop ==
    \/ DriverWaits
    \/ \E ans \in SettingAnswers : DriverScanStarts(ans)
    \/ \E c \in CashSet : DriverScanDone(c)
    \/ DriverOffMarket
    \/ DriverWakes
    \/ Stop
    \/ Pause
    \/ Resume
    \/ TrackerTick
    \/ \E q \in Quotes : TrackerQuote(q)
    \/ \E p \in PredAnswers, s \in StratAnswers, t \in Styles :
          TrackerPredict(p, s, t)
    \/ \E q \in Quotes, fx \in FxQuotes : TrackerFresh(q, fx)
    \/ \E res \in PlaceAnswers, c \in CashSet : TrackerPlace(res, c)
    \/ ReaperPoll
    \/ \E ok \in BOOLEAN, c \in CashSet : ReaperCancel(ok, c)
    \/ \E k \in DOMAIN orders : BrokerFill(k)
    \/ \E k \in DOMAIN orders : OrderAges(k)
    \/ \E a \in {{}, {"KR"}} : ClockMoves(a)

SpecLoop == InitLoop /\ [][NextLoop]_vars

\* C11: once stop() has set the flag to stopped it stays stopped until the
\* operator calls again: no step of the Scan Driver, a scan cycle that was
\* running when stop() was called included, writes another value over it
C11_StoppedUntilResume ==
    [][status = "stopped" /\ status' # "stopped" => drv' = drv]_vars

\* stop() was called while a scan cycle was being awaited
C11_StoppedDuringScan == status = "stopped" /\ drv.pc = "scan"

\* C12: a loop iteration that begins while the flag is stopped starts no
\* work: the Scan Driver starts no scan, the Candidate Tracker and the
\* Holdings Tracker start no pass, the Order Reaper starts no cancellation
C12_NoWorkWhileStopped ==
    [][status = "stopped" =>
          /\ (drv.pc = "top" => drv'.pc \in {"top", "sleep"})
          /\ (trk.pc = "idle" => trk'.pc = "idle")
          /\ (htk.pc = "idle" => htk'.pc = "idle")
          /\ (rpr.pc = "idle" => rpr'.pc = "idle")]_vars

\* the Order Reaper is cancelling while the flag is stopped
C12_CancelWhileStopped == status = "stopped" /\ rpr.pc = "cancel"

\* C13: no error ends a loop: the Scan Driver never leaves `while True`
C13_DriverNeverEnds == drv.pc # "dead"


-----------------------------------------------------------------------------
(* _auto_cancel_pending: the age of a pending order                          *)

\* every task idle, nothing held, ordered or blacklisted
TasksAtRest ==
    /\ blacklist = {}
    /\ holdings = <<>>
    /\ used = [t \in Styles |-> 0]
    /\ orders = <<>>
    /\ trk = IdleTrk
    /\ rpr = IdleRpr
    /\ cfg = [autoBuy |-> FALSE, autoSell |-> FALSE]
    /\ failed = {}
    /\ wk = IdlePool
    /\ tok = NoToken
    /\ fxc = FALSE
    /\ pos = {}
    /\ htk = IdleHtk
    /\ retired = {}
    /\ status = "idle"
    /\ drv = IdleDrv

\* the engine as __init__ leaves it: nothing restored, every task idle
CoreAtRest ==
    /\ TasksAtRest
    /\ item = [k \in 1..NItems |-> CHOOSE r \in StoredRows : TRUE]
    /\ buyPool = <<>>
    /\ candidates = <<>>
    /\ cash = 0
    /\ active = {}
    /\ sel = IdleSel

\* `if elapsed < 60: continue`
ReaperTimeout == 60

\* timedelta(days=1), in seconds
SecondsPerDay == 86400

\* times of day, in seconds after midnight, at which the order was placed
PlacedTimes == {0, 1, 32400, 55799, 86339, 86340, 86370, 86399}

\* seconds between the placing of the order and datetime.now() of the pass;
\* the broker lists the orders of the day only
PassDelays == {0, 1, 59, 60, 61, 3600, 86399}

\* ord_tmd: the time of day as the six digits HHMMSS, read as a number
OrderTime(t) == (t \div 3600) * 10000 + ((t % 3600) \div 60) * 100 + (t % 60)

\* now.replace(hour=int(s[0:2]), minute=int(s[2:4]), second=int(s[4:6])):
\* seconds after today's midnight
OrderDt(s) == (s \div 10000) * 3600 + ((s \div 100) % 100) * 60 + (s % 100)

\* an elapsed time that takes the order for one of today whatever its time
ElapsedSameDay(now, s) == now - OrderDt(s)

\* elapsed: an order time later than now is taken for yesterday's
Elapsed(now, s) ==
    IF OrderDt(s) > now THEN now - (OrderDt(s) - SecondsPerDay)
    ELSE now - OrderDt(s)

\* the order is not skipped: a cancel request is sent for it
ReaperCancels(now, s) == ~(Elapsed(now, s) < ReaperTimeout)

\* one pass of the for loop over an order the broker lists as unfilled
ReaperPass ==
    /\ aged.pc = "listed"
    /\ aged' = [aged EXCEPT
          !.pc = "passed",
          !.cancel = ReaperCancels((aged.placed + aged.age) % SecondsPerDay,
                                   OrderTime(aged.placed))]
    /\ UNCHANGED <<coreVars, status, drv, sized, exit, clk, scans>>

\* asyncio.sleep(20) at the end of an iteration
ReaperInterval == 20

\* the order was left alone: the poll of the next iteration lists it again
ReaperSleeps ==
    /\ aged.pc = "passed"
    /\ ~aged.cancel
    /\ aged.age + ReaperInterval < SecondsPerDay
    /\ aged' = [aged EXCEPT !.pc = "listed", !.age = @ + ReaperInterval]
    /\ UNCHANGED <<coreVars, status, drv, sized, exit, clk, scans>>

InitAge ==
    /\ CoreAtRest
    /\ aged \in [pc : {"listed"}, placed : PlacedTimes, age : PassDelays,
                 cancel : {FALSE}]
    /\ sized = NoSized
    /\ exit = NoExit
    /\ clk = NoClk
    /\ scans = StoredSaves

NextAge == ReaperPass \/ ReaperSleeps

SpecAge == InitAge /\ [][NextAge]_vars

\* C14: a reaper pass requests the cancellation of an unfilled order exactly
\* when the order is at least 60 seconds old: an order placed at t=0 is
\* cancelled by the pass at t=61s and left alone by the pass at t=59s
C14_CancelledIffTimedOut ==
    aged.pc = "passed" =>
        /\ (aged.cancel <=> aged.age >= ReaperTimeout)
        /\ (aged.age = 61 => aged.cancel)
        /\ (aged.age = 59 => ~aged.cancel)

\* an order placed before midnight was passed 61 seconds later and cancelled
C14_Witness ==
    /\ aged.pc = "passed"
    /\ aged.age = 61
    /\ aged.placed + aged.age >= SecondsPerDay
    /\ aged.cancel


-----------------------------------------------------------------------------
(* _execute_buy: the quantity of an order on an exchange with lots           *)

\* the orders to size: a market whose exchanges are in DEFAULT_LOT_SIZES,
\* strategy_avail in won, the won per unit of the quote currency, the fresh
\* quote, buy_risk_level and buy_recommended_qty of the candidate
SizedOrders ==
    [pc : {"asked"}, market : {"JP", "HK"}, avail : {5000, 20000, 45000},
     fx : {1, 10}, price : {40, 100, 150, 250}, risk : {2, 5, 8},
     ai : {1, 150, 350}, qty : {0}]

\* the sizing of one order, from strategy_avail to the order or the return
SizeBuy ==
    /\ sized.pc = "asked"
    /\ LET q == BuyQty(sized.avail, sized.fx, sized.price, sized.risk,
                       sized.ai, DefaultLotSize(sized.market))
       IN  sized' = [sized EXCEPT !.qty = q,
                                  !.pc = IF q > 0 THEN "ordered" ELSE "watching"]
    /\ UNCHANGED <<coreVars, status, drv, aged, exit, clk, scans>>

\* the tracker comes back to a candidate that was left watching
SizeAgain ==
    /\ sized.pc = "watching"
    /\ sized' = [sized EXCEPT !.pc = "asked"]
    /\ UNCHANGED <<coreVars, status, drv, aged, exit, clk, scans>>

InitLot ==
    /\ CoreAtRest
    /\ sized \in SizedOrders
    /\ aged = NoAged
    /\ exit = NoExit
    /\ clk = NoClk
    /\ scans = StoredSaves

NextLot == SizeBuy \/ SizeAgain

SpecLot == InitLot /\ [][NextLot]_vars

\* C15: on an exchange whose lot size is 100 a submitted quantity is a
\* multiple of 100 and price x quantity is within the budget share of the
\* order (strategy_avail); no order is submitted exactly when one lot does
\* not fit the share
C15_WholeLotsWithinShare ==
    /\ sized.pc = "ordered" =>
          /\ sized.qty > 0
          /\ sized.qty % 100 = 0
          /\ sized.price * sized.qty * sized.fx <= sized.avail
    /\ sized.pc = "watching" => sized.price * 100 * sized.fx > sized.avail

\* a quantity rounded down to two lots was ordered
C15_Witness ==
    /\ sized.pc = "ordered"
    /\ sized.qty = 200
    /\ sized.ai = 350


-----------------------------------------------------------------------------
(* _track_holdings step 4 and calculate_net_profit: the take-profit decision *)

\* holding.get("exchange", "NASD") of the broker rows; KRX has no entry in
\* OVERSEAS_FEE_RATES and gets the default one
Exchanges == {"NASD", "TKSE", "SEHK", "SHAA", "KRX"}

\* rates["fee_rate"], in ten-millionths
FeeRate(x) ==
    CASE x = "TKSE" -> 23000
      [] x \in {"SEHK", "SHAA"} -> 30000
      [] OTHER -> 25000

\* rates["buy_tax"], in ten-millionths
BuyTax(x) ==
    CASE x = "SEHK" -> 10850
      [] x = "SHAA" -> 841
      [] OTHER -> 0

\* rates["sell_tax"], in ten-millionths
SellTax(x) ==
    CASE x = "SEHK" -> 10850
      [] x = "SHAA" -> 5841
      [] OTHER -> 0

\* a profit test that forgets the fees and taxes: gross_profit > 0
GrossProfitable(buy, sell, x) == sell - buy > 0

\* calculate_net_profit(buy, sell, qty, x)["profitable"]: net_profit > 0, for
\* one share and multiplied through by ten million (min_fee is 0 in every row)
NetProfitable(buy, sell, x) ==
    10000000 * (sell - buy)
        - (FeeRate(x) + BuyTax(x)) * buy
        - (FeeRate(x) + SellTax(x)) * sell > 0

\* the holdings in front of step 4: avg_price with the oracle's ai_sell_price
\* 0.3 % or 3 % above it, its stop_loss (0 for none), its action, a live quote
ExitCases ==
    { h \in [st : {"watching"}, exch : Exchanges, avg : {100, 1000},
             sellPrice : {103, 1003}, stop : {0, 95}, action : {"SELL", "HOLD"},
             cur : {95, 102, 103, 110, 1002, 1003, 1100}, seen : {FALSE}] :
        /\ h.avg = 100 <=> h.sellPrice = 103
        /\ h.avg = 100 <=> h.cur < 1000 }

\* step 4 of one tick: take profit if the net profit is positive, else stop
\* loss; sell_status becomes selling as _execute_sell is called
ExitDecide ==
    /\ exit.st = "watching"
    /\ ~exit.seen
    /\ LET sells == IF TakeProfit(exit)
                    THEN NetProfitable(exit.avg, exit.cur, exit.exch)
                    ELSE StopLoss(exit)
       IN  exit' = [exit EXCEPT !.seen = TRUE,
                                !.st = IF sells THEN "selling" ELSE "watching"]
    /\ UNCHANGED <<coreVars, status, drv, aged, sized, clk, scans>>

\* the next tick brings another quote for a holding that was kept
ExitQuote(q) ==
    /\ exit.st = "watching"
    /\ exit.seen
    /\ q # exit.cur
    /\ exit' = [exit EXCEPT !.seen = FALSE, !.cur = q]
    /\ UNCHANGED <<coreVars, status, drv, aged, sized, clk, scans>>

InitExit ==
    /\ CoreAtRest
    /\ exit \in ExitCases
    /\ aged = NoAged
    /\ sized = NoSized
    /\ clk = NoClk
    /\ scans = StoredSaves

NextExit ==
    \/ ExitDecide
    \/ \E h \in ExitCases : h.avg = exit.avg /\ ExitQuote(h.cur)

SpecExit == InitExit /\ [][NextExit]_vars

\* the holding of the example after step 4: bought at 100, exit target 103,
\* the oracle's action SELL, on an exchange charging 0.3 % each way
ExitExample(c) ==
    /\ exit.seen
    /\ exit.avg = 100 /\ exit.sellPrice = 103 /\ exit.action = "SELL"
    /\ 2 * FeeRate(exit.exch) = 60000
    /\ exit.cur = c

-----------------------------------------------------------------------------
(* select_balanced_portfolio over a pool of many day rows and few swing rows *)

NDay == 10
NSwing == 2

\* row k of the pool: the first NDay rows are day rows, the others swing rows,
\* every row of a symbol of its own at a price of 100 won
BalRow(k, sc) ==
    [ sym |-> ToString(k), market |-> "KR", score |-> sc, price |-> 100,
      pkrw |-> 100, tt |-> IF k <= NDay THEN "day" ELSE "swing", st |-> "none",
      pred |-> 0, strat |-> "pullback", live |-> 0, act |-> "BUY", risk |-> 5,
      rqty |-> 1,
      oprice |-> 0 ]

\* nothing is held or tracked, the cash is twice the cost of the whole pool
InitBal ==
    /\ TasksAtRest
    /\ \E sc \in [1..(NDay + NSwing) -> SelScores] :
          item = [k \in 1..(NDay + NSwing) |-> BalRow(k, sc[k])]
    /\ buyPool = [k \in 1..(NDay + NSwing) |-> k]
    /\ candidates = <<>>
    /\ cash = 200 * (NDay + NSwing)
    /\ active = {"KR"}
    /\ sel = SelStart(item, Affordable(item, buyPool, cash), candidates,
                      holdings, blacklist, cash)
    /\ aged = NoAged
    /\ sized = NoSized
    /\ exit = NoExit
    /\ clk = NoClk
    /\ scans = StoredSaves

SpecBal == InitBal /\ [][NextSel]_vars

\* C17: with ten affordable day rows, two swing rows, ample cash and nothing
\* committed, the day and swing counts differ by at most one after every
\* admission while swing rows are left; then the remaining day rows are
\* admitted, so that the run ends with all twelve rows admitted
C17_BalancedThenFilled ==
    sel.run =>
        /\ sel.cd + sel.cs = Len(sel.sel)
        /\ sel.ps # <<>> => Abs(sel.cd - sel.cs) <= 1
        /\ sel.ps = <<>> => sel.cs = NSwing
        /\ sel.done => sel.cd = NDay /\ Len(sel.sel) = NDay + NSwing

\* a finished run that admitted every row, the last swing row as the fourth
C17_Witness ==
    /\ sel.run /\ sel.done
    /\ Len(sel.sel) = NDay + NSwing
    /\ item[sel.sel[4]].tt = "swing"
    /\ item[sel.sel[NDay + NSwing]].tt = "day"


-----------------------------------------------------------------------------
(* get_active_markets: the market clock                                      *)

ClockMarkets == {"KR", "JP", "CN", "HK", "US"}

\* MARKET_HOURS_KST[m]["open"], in minutes after midnight
OpenMinute(m) ==
    CASE m \in {"KR", "JP"} -> 9 * 60
      [] m \in {"CN", "HK"} -> 10 * 60
      [] OTHER -> 23 * 60 + 30

\* MARKET_HOURS_KST[m]["close"], in minutes after midnight
CloseMinute(m) ==
    CASE m = "KR" -> 15 * 60 + 30
      [] m = "JP" -> 15 * 60
      [] m = "CN" -> 16 * 60
      [] m = "HK" -> 17 * 60
      [] OTHER -> 6 * 60

\* a window test that does not wrap past midnight
InWindowNoWrap(m, cur) == OpenMinute(m) <= cur /\ cur < CloseMinute(m)

\* the window test of the weekday branch
InWindow(m, cur) ==
    IF m = "US" THEN cur >= OpenMinute(m) \/ cur < CloseMinute(m)
    ELSE OpenMinute(m) <= cur /\ cur < CloseMinute(m)

\* get_active_markets() at weekday wd (Monday is 0) and minute cur of the day
GetActiveMarkets(wd, cur) ==
    (IF wd < 5 THEN {m \in ClockMarkets : InWindow(m, cur)} ELSE {})
    \cup (IF wd = 5 /\ cur < CloseMinute("US") THEN {"US"} ELSE {})

\* times of day of a call, in minutes after midnight: the ends of the windows,
\* the minutes next to them, 05:00, 12:00 and 23:45
ClockMinutes == {0, 300, 359, 360, 540, 720, 929, 930, 1409, 1410, 1425, 1439}

\* one call of get_active_markets
ReadClock ==
    /\ clk.pc = "asked"
    /\ clk' = [clk EXCEPT !.pc = "read",
                          !.open = GetActiveMarkets(clk.weekday, clk.minute)]
    /\ UNCHANGED <<coreVars, status, drv, aged, sized, exit, scans>>

\* the Scan Driver asks again on a later pass, at another time of the day
ClockAsked(t) ==
    /\ clk.pc = "read"
    /\ t > clk.minute
    /\ clk' = [clk EXCEPT !.pc = "asked", !.minute = t, !.open = {}]
    /\ UNCHANGED <<coreVars, status, drv, aged, sized, exit, scans>>

InitClock ==
    /\ CoreAtRest
    /\ clk \in [pc : {"asked"}, weekday : 0..6, minute : ClockMinutes,
                open : {{}}]
    /\ aged = NoAged
    /\ sized = NoSized
    /\ exit = NoExit
    /\ scans = StoredSaves

NextClock == ReadClock \/ \E t \in ClockMinutes : ClockAsked(t)

SpecClock == InitClock /\ [][NextClock]_vars

\* C18 as stated: the market with the window 23:30-06:00 is reported open at
\* 23:45 and at 05:00 and closed at 12:00
C18_OpenAt2345And0500 ==
    clk.pc = "read" =>
        /\ clk.minute \in {23 * 60 + 45, 5 * 60} => "US" \in clk.open
        /\ clk.minute = 12 * 60 => "US" \notin clk.open

\* C18: the market with the window 23:30-06:00 is reported open at 23:45 and
\* at 05:00 from Monday to Friday and at 05:00 on Saturday; it is reported
\* closed at 23:45 on Saturday, at both times on Sunday and at 12:00 every day
C18_OpenOnWeekdaysOnly ==
    clk.pc = "read" =>
        /\ clk.minute \in {23 * 60 + 45, 5 * 60} =>
              ("US" \in clk.open <=>
                  clk.weekday < 5 \/ (clk.weekday = 5 /\ clk.minute = 5 * 60))
        /\ clk.minute = 12 * 60 => "US" \notin clk.open

\* the clock was read at 23:45 on a Monday and reported the market open
C18_Witness ==
    /\ clk.pc = "read"
    /\ clk.weekday = 0
    /\ clk.minute = 23 * 60 + 45
    /\ "US" \in clk.open


-----------------------------------------------------------------------------
(* _refine_candidates and the tracked list                                   *)

\* the statuses past watching
PastWatching == {"analyzing", "ordering", "pending", "filled"}

\* C19: a scan cycle's run of _refine_candidates keeps every candidate whose
\* status is past watching in the list, with its row unchanged, whatever the
\* selection and the cash are
C19_PastWatchingKept ==
    [][(\E c \in CashSet : ScanMarket(c)) =>
          \A i \in SeqToSet(candidates) :
              item[i].st \in PastWatching =>
                  i \in SeqToSet(candidates') /\ item'[i] = item[i]]_vars

\* a candidate with an open order is tracked
C19_PendingTracked ==
    \E i \in SeqToSet(candidates) : item[i].st = "pending"

\* C20: no two entries of the tracked candidate list have the same symbol
C20_OneEntryPerSymbol ==
    \A j, k \in 1..Len(candidates) :
        item[candidates[j]].sym = item[candidates[k]].sym => j = k

\* two rows of one symbol are tracked
C20_TwoEntriesOfOneSymbol ==
    \E j, k \in 1..Len(candidates) :
        j # k /\ item[candidates[j]].sym = item[candidates[k]].sym

-----------------------------------------------------------------------------
(* the tracker and the list it iterates                                      *)

-----------------------------------------------------------------------------
(* A limit order that fills while its candidate is pending                   *)

\* the engine restored with one US row tracked, auto-buy on, the US market
\* open and staying open
InitFill ==
    /\ Init
    /\ cfg.autoBuy
    /\ active = {"US"}
    /\ Len(buyPool) = 1
    /\ candidates = <<1>>
    /\ \A k \in 1..NItems : item[k].market = "US"

\* the tracker and the reaper, the broker and the age of the orders
NextFill ==
    \/ TrackerTick
    \/ \E q \in Quotes : TrackerQuote(q)
    \/ \E p \in PredAnswers, s \in StratAnswers, t \in Styles :
          TrackerPredict(p, s, t)
    \/ \E q \in Quotes, fx \in FxQuotes : TrackerFresh(q, fx)
    \/ \E res \in PlaceAnswers, c \in CashSet : TrackerPlace(res, c)
    \/ ReaperPoll
    \/ \E ok \in BOOLEAN, c \in CashSet : ReaperCancel(ok, c)
    \/ \E k \in DOMAIN orders : BrokerFill(k)
    \/ \E k \in DOMAIN orders : OrderAges(k)

\* both tasks are `while True` loops of awaits that return: a sleep ends, a
\* broker or oracle call answers or raises into the loop's except
FairFill ==
    /\ WF_vars(TrackerTick)
    /\ WF_vars(\E q \in Quotes : TrackerQuote(q))
    /\ WF_vars(\E p \in PredAnswers, s \in StratAnswers, t \in Styles :
                  TrackerPredict(p, s, t))
    /\ WF_vars(\E q \in Quotes, fx \in FxQuotes : TrackerFresh(q, fx))
    /\ WF_vars(\E res \in PlaceAnswers, c \in CashSet : TrackerPlace(res, c))
    /\ WF_vars(ReaperPoll)
    /\ WF_vars(\E ok \in BOOLEAN, c \in CashSet : ReaperCancel(ok, c))

SpecFill == InitFill /\ [][NextFill]_vars /\ FairFill

\* the buy order of entry i is filled at the broker
BuyFilled(i) ==
    \E k \in DOMAIN orders : /\ orders[k].sym = item[i].sym
                             /\ orders[k].side = "buy"
                             /\ orders[k].state = "filled"

\* C22: a pending candidate whose limit order is filled at the broker reaches
\* status filled while the tracker keeps ticking
C22_FilledOrderReachesFilled ==
    \A i \in 1..NItems :
        (item[i].st = "pending" /\ BuyFilled(i)) ~> (item[i].st = "filled")

\* a tick after the fill is at the pending candidate
C22_TickOnFilledPending ==
    /\ trk.pc = "quote"
    /\ item[Cur].st = "pending"
    /\ BuyFilled(Cur)

-----------------------------------------------------------------------------
(* A filled candidate whose price falls                                      *)

\* the price the broker quotes: 100 until a buy order of the engine is
\* filled, 90 from then on, which is 10 % under the price of that order
FallingQuotes == IF \E i \in 1..NItems : item[i].st = "filled" THEN {90} ELSE {100}

\* the engine restored with one row of the home market tracked, auto-buy on,
\* the market open and staying open
InitStop ==
    /\ Init
    /\ cfg.autoBuy
    /\ active = {"KR"}
    /\ Len(buyPool) = 1
    /\ candidates = <<1>>
    /\ \A k \in 1..NItems : item[k].market = "KR"

NextStop ==
    \/ TrackerTick
    \/ \E q \in FallingQuotes : TrackerQuote(q)
    \/ \E p \in PredAnswers, s \in StratAnswers, t \in Styles :
          TrackerPredict(p, s, t)
    \/ \E q \in FallingQuotes, fx \in FxQuotes : TrackerFresh(q, fx)
    \/ \E res \in PlaceAnswers, c \in CashSet : TrackerPlace(res, c)
    \/ ReaperPoll
    \/ \E ok \in BOOLEAN, c \in CashSet : ReaperCancel(ok, c)
    \/ \E k \in DOMAIN orders : BrokerFill(k)
    \/ \E k \in DOMAIN orders : OrderAges(k)

\* FairFill with the quotes of this market
FairStop ==
    /\ WF_vars(TrackerTick)
    /\ WF_vars(\E q \in FallingQuotes : TrackerQuote(q))
    /\ WF_vars(\E p \in PredAnswers, s \in StratAnswers, t \in Styles :
                  TrackerPredict(p, s, t))
    /\ WF_vars(\E q \in FallingQuotes, fx \in FxQuotes : TrackerFresh(q, fx))
    /\ WF_vars(\E res \in PlaceAnswers, c \in CashSet : TrackerPlace(res, c))
    /\ WF_vars(ReaperPoll)
    /\ WF_vars(\E ok \in BOOLEAN, c \in CashSet : ReaperCancel(ok, c))

SpecStop == InitStop /\ [][NextStop]_vars /\ FairStop

\* C23: a filled candidate has its exit rules evaluated on every tick, the
\* hard stop first, so a filled candidate whose price stands at or under the
\* hard stop of its order price is eventually sold
C23_HardStopEventuallySells ==
    \A i \in 1..NItems :
        (item[i].st = "filled" /\ \A q \in FallingQuotes : HardStop(item[i], q))
            ~> (item[i].st = "sold")

\* a tick has begun after the fill: the filled candidate, its price under the
\* hard stop, is out of the list the tick goes through
C23_FilledLeftOut ==
    \E i \in 1..NItems :
        /\ item[i].st = "filled"
        /\ \A q \in FallingQuotes : HardStop(item[i], q)
        /\ i \notin SeqToSet(candidates)
        /\ i \notin SeqToSet(trk.list)
        /\ trk.pc = "idle"

\* C24: a tracker tick takes an entry out of the tracked list exactly when
\* the entry is sold or blacklisted, or its market is closed and it is not
\* filled; a filled entry that is not sold stays
C24_RemovedOnlyWhenDone ==
    [][TrackerTick =>
          \A i \in SeqToSet(candidates) :
              i \notin SeqToSet(candidates')
                  <=> \/ item[i].st \in {"sold", "blacklisted"}
                      \/ item[i].market \notin active /\ item[i].st # "filled"]_vars

\* the tracker has taken a filled entry of an open market out of the list
C24_FilledRemoved ==
    \E i \in 1..NItems :
        /\ item[i].st = "filled"
        /\ item[i].market \in active
        /\ item[i].sym \notin blacklist
        /\ i \notin SeqToSet(candidates)

-----------------------------------------------------------------------------
(* _portfolio_used and the orders it stands for                              *)

RECURSIVE Committed(_, _)
\* the KRW of the buy orders of style t that are open or filled
Committed(os, t) ==
    IF os = <<>> THEN 0
    ELSE (IF /\ Head(os).side = "buy"
             /\ Head(os).tt = t
             /\ Head(os).state \in {"open", "filled"}
          THEN Head(os).krw ELSE 0) + Committed(Tail(os), t)

\* C25: used[style] is the total KRW of that style's orders that are open or
\* filled; the amount of a buy order the reaper cancelled is released
C25_UsedIsCommitted == \A t \in Styles : used[t] = Committed(orders, t)

\* a cancelled buy order is still counted in used
C25_CancelledStillCharged ==
    \E k \in DOMAIN orders :
        /\ orders[k].side = "buy"
        /\ orders[k].state = "cancelled"
        /\ Committed(orders, orders[k].tt) = 0
        /\ used[orders[k].tt] = orders[k].krw

-----------------------------------------------------------------------------
(* The holding tracker beside the order reaper                               *)

\* the holding tracker with auto-sell on
InitSale == InitHold /\ cfg.autoSell

NextSale ==
    \/ \E a, b \in BOOLEAN : HoldPoll(a, b)
    \/ \E q \in HoldQuotes : HoldQuote(q)
    \/ \E a \in SellAnswers : HoldPredict(a)
    \/ \E ok \in BOOLEAN, c \in CashSet : HoldSell(ok, c)
    \/ \E k \in DOMAIN orders : SellFills(k)
    \/ \E sy \in Symbols : PositionOpens(sy)
    \/ \E k \in DOMAIN orders : OrderAges(k)
    \/ ReaperPoll
    \/ \E ok \in BOOLEAN, c \in CashSet : ReaperCancel(ok, c)

SpecSale == InitSale /\ [][NextSale]_vars

\* the sale order of symbol sy is open or filled at the broker
LiveSale(sy) ==
    \E k \in DOMAIN orders : /\ orders[k].sym = sy
                             /\ orders[k].side = "sell"
                             /\ orders[k].state \in {"open", "filled"}

\* C26: a holding in status sold has a sale order that is filled or still
\* open at the broker; once the reaper has cancelled the sale order of a
\* position still owned, the holding is no longer sold
C26_SoldHasLiveSale ==
    \A k \in DOMAIN holdings : holdings[k].st = "sold" => LiveSale(holdings[k].sym)

\* a holding tick meets a position whose only sale order was cancelled and
\* whose holding is still sold
C26_SoldAfterCancel ==
    /\ htk.pc = "quote"
    /\ htk.raw[htk.idx] \in pos
    /\ ~LiveSale(htk.raw[htk.idx])
    /\ \E k \in DOMAIN orders : /\ orders[k].sym = htk.raw[htk.idx]
                                 /\ orders[k].state = "cancelled"
    /\ \E k \in DOMAIN holdings : /\ holdings[k].sym = htk.raw[htk.idx]
                                   /\ holdings[k].st = "sold"

-----------------------------------------------------------------------------
(* The answers to the reaper's cancel requests                               *)

\* the order the reaper's pass is at
ReaperOrder == orders[rpr.list[rpr.idx]]

\* C27: after a successful cancel the candidates of the cancelled order's
\* symbol are watching; after a failed one no candidate's status has changed
\* and the pass goes on to another order, never back to this one
C27_CancelAnswerHandled ==
    [][/\ (\E c \in CashSet : ReaperCancel(TRUE, c)) =>
              \A i \in SeqToSet(candidates) :
                  item[i].sym = ReaperOrder.sym => StatusOf(item'[i]) = "watching"
       /\ (\E c \in CashSet : ReaperCancel(FALSE, c)) =>
              /\ \A i \in 1..NItems : item'[i].st = item[i].st
              /\ rpr'.pc = "cancel" =>
                     /\ rpr'.list = rpr.list
                     /\ rpr'.idx = rpr.idx + 1
              /\ \A a, b \in DOMAIN rpr.list :
                     a # b => rpr.list[a] # rpr.list[b]]_vars

\* the order of the second of two entries of one symbol was cancelled: the
\* first entry was reset and the second is pending as before
C27_PendingAfterCancel ==
    \E i, j \in SeqToSet(candidates), k \in DOMAIN orders :
        /\ i # j
        /\ item[i].sym = item[j].sym
        /\ orders[k].sym = item[j].sym
        /\ orders[k].side = "buy"
        /\ orders[k].state = "cancelled"
        /\ item[i].st = "watching"
        /\ item[j].st = "pending"
        /\ OpenBuys(item[j].sym) = {}

-----------------------------------------------------------------------------
(* The quote fetched right before the order                                  *)

\* what _fetch_live_price gets from the broker: 0 for a failed fetch, and
\* prices on both sides of 15 % around a reference of 100
OrderQuotes == {0, 84, 85, 100, 115, 116}

\* one tracked row of the home market or of the US market, that market open
InitOrder == InitFill \/ InitStop

NextOrder ==
    \/ TrackerTick
    \/ \E q \in OrderQuotes : TrackerQuote(q)
    \/ \E p \in PredAnswers, s \in StratAnswers, t \in Styles :
          TrackerPredict(p, s, t)
    \/ \E q \in OrderQuotes, fx \in FxQuotes : TrackerFresh(q, fx)
    \/ \E res \in PlaceAnswers, c \in CashSet : TrackerPlace(res, c)
    \/ ReaperPoll
    \/ \E ok \in BOOLEAN, c \in CashSet : ReaperCancel(ok, c)
    \/ \E k \in DOMAIN orders : BrokerFill(k)
    \/ \E k \in DOMAIN orders : OrderAges(k)

SpecOrder == InitOrder /\ [][NextOrder]_vars

\* ref of _execute_buy: the predicted entry price, else the scan price
RefPrice(r) == IF r.pred > 0 THEN r.pred ELSE r.price

\* C28: when the price fetched right before the order is more than 15 % away
\* from the reference price, no order is sent, the candidate is watching
\* again and the blacklist is as it was
C28_DeviationBlocksOrder ==
    [][\A q \in OrderQuotes \ {0} :
          (/\ \E fx \in FxQuotes : TrackerFresh(q, fx)
           /\ RefPrice(item[Cur]) > 0
           /\ 100 * (q - RefPrice(item[Cur])) > 15 * RefPrice(item[Cur])
              \/ 100 * (RefPrice(item[Cur]) - q) > 15 * RefPrice(item[Cur]))
          => /\ trk'.pc # "place"
             /\ orders' = orders
             /\ item'[Cur].st = "watching"
             /\ blacklist' = blacklist]_vars

\* a candidate quoted at 84 and predicted at 100 went to ordering; the price
\* fetched before the order was more than 15 % off (84 or 116) and the
\* candidate is watching again, its stored live price still that of the tick
C28_Witness ==
    \E i \in SeqToSet(candidates) :
        /\ item[i].st = "watching"
        /\ item[i].pred = 100
        /\ item[i].live = 84
        /\ item[i].sym \notin blacklist
        /\ orders = <<>>
        /\ StrategyAvail(cash, used[TradeType(item[i])], TradeType(item[i])) > 0

\* C29: when the fetch of the price right before the order fails, no order
\* is sent and the candidate is watching again; no order goes out at the
\* predicted entry price in place of a quote
C29_FailedQuoteBlocksOrder ==
    [][(\E fx \in FxQuotes : TrackerFresh(0, fx))
          => /\ trk'.pc # "place"
             /\ orders' = orders
             /\ item'[Cur].st = "watching"]_vars

\* a limit order is on its way at the predicted entry price, a price the
\* broker never quoted
C29_OrderAtPredictedPrice ==
    /\ trk.pc = "place"
    /\ item[Cur].market # "KR"
    /\ trk.price = item[Cur].pred
    /\ trk.price \notin Quotes

-----------------------------------------------------------------------------
(* _execute_buy left by an exception                                         *)

\* the tick's quote arrives, the trigger holds and tracking_status is set to
\* ordering; get_setting at the top of _execute_buy raises, nothing between
\* it and the except of _track_candidates catches, and the tick is over
TrackerQuoteRaises(q) ==
    /\ trk.pc = "quote"
    /\ ~trk.filled
    /\ LET i    == Cur
           live == IF q > 0 THEN q ELSE item[i].price
           it1  == IF live > 0 THEN [item EXCEPT ![i].live = live] ELSE item
       IN  /\ ~NeedsPrediction(it1[i])
           /\ CheckBuyCondition(it1[i])
           /\ item' = [it1 EXCEPT ![i].st = "ordering"]
    /\ trk' = IdleTrk
    /\ UNCHANGED <<buyPool, candidates, blacklist, holdings, cash, used, orders,
                   active, sel, rpr, cfg, failed, poolVars, holdVars, ctlVars>>

\* the same after the answer of _predict_buy_timing
TrackerPredictRaises(p, s, t) ==
    /\ trk.pc = "predict"
    /\ LET i   == Cur
           it1 == IF p > 0
                  THEN [item EXCEPT ![i] = UpdateCandidateWithPrediction(item[i], p, s, t)]
                  ELSE [item EXCEPT ![i].st = "watching"]
       IN  /\ CheckBuyCondition(it1[i])
           /\ item' = [it1 EXCEPT ![i].st = "ordering"]
    /\ trk' = IdleTrk
    /\ UNCHANGED <<buyPool, candidates, blacklist, holdings, cash, used, orders,
                   active, sel, rpr, cfg, failed, poolVars, holdVars, ctlVars>>

NextRetry ==
    \/ NextFill
    \/ \E q \in Quotes : TrackerQuoteRaises(q)
    \/ \E p \in PredAnswers, s \in StratAnswers, t \in Styles :
          TrackerPredictRaises(p, s, t)

\* the tasks go on as in SpecFill; no exception is ever bound to happen
SpecRetry == InitFill /\ [][NextRetry]_vars /\ FairFill

\* C30: a candidate in ordering leaves it: each call of _execute_buy, one
\* that raises included, ends with the candidate watching, pending, filled
\* or blacklisted
C30_OrderingIsLeft ==
    \A i \in 1..NItems :
        (item[i].st = "ordering")
            ~> (item[i].st \in {"watching", "pending", "filled", "blacklisted"})

\* a new tick is at a candidate that is still in ordering
C30_TickOnOrdering ==
    /\ trk.pc = "quote"
    /\ item[Cur].st = "ordering"

-----------------------------------------------------------------------------
(* A row the scan cycle has just analysed                                    *)

\* the symbols of the entries of a list
SymbolsOf(it, cands) == {it[i].sym : i \in SeqToSet(cands)}

\* C31: a row the oracle marked BUY at or above the threshold, of a symbol
\* neither tracked nor blacklisted, affordable and with cash enough for the
\* whole pool, is in the tracked list when the cycle's _refine_candidates
\* has run, whether or not it has a trade style yet
C31_NewBuyIsTracked ==
    [][\A c \in CashSet :
          (/\ DriverScanDone(c)
           /\ Len(buyPool') = Len(buyPool) + 1
           /\ item[Len(buyPool')].sym \notin SymbolsOf(item, candidates)
           /\ item[Len(buyPool')].sym \notin blacklist
           /\ IsAffordable(item[Len(buyPool')], c)
           /\ SumMinCost(item, buyPool') <= c)
          => Len(buyPool') \in SeqToSet(candidates')]_vars

\* the cycle is over, the analysed row is in the pool and affordable, its
\* symbol is neither tracked nor blacklisted, and it is not in the list
C31_NewBuyLeftOut ==
    /\ drv.pc = "sleep"
    /\ Len(buyPool) = 2
    /\ item[2].tt = "none"
    /\ item[2].sym \notin SymbolsOf(item, candidates)
    /\ item[2].sym \notin blacklist
    /\ IsAffordable(item[2], cash)
    /\ SumMinCost(item, buyPool) <= cash
    /\ 2 \notin SeqToSet(candidates)

-----------------------------------------------------------------------------
(* Step 4 of the holding tracker: take profit and stop loss                  *)

\* C32: a watching holding is sold whenever the live price has reached the
\* exit target and the net profit after fees is positive; with the target
\* reached and the net profit not positive it stays watching
C32_SoldAtProfitableTarget ==
    (exit.seen /\ exit.sellPrice > 0 /\ exit.cur >= exit.sellPrice)
        => IF NetProfitable(exit.avg, exit.cur, exit.exch)
           THEN exit.st = "selling"
           ELSE exit.st = "watching"

\* the target is reached with a positive net profit, the oracle's action is
\* HOLD, and step 4 has left the holding watching
C32_KeptAtProfitableTarget ==
    /\ exit.seen
    /\ exit.action = "HOLD"
    /\ exit.sellPrice > 0
    /\ exit.cur >= exit.sellPrice
    /\ NetProfitable(exit.avg, exit.cur, exit.exch)
    /\ exit.st = "watching"

\* holdings bought at 1000 with the exit plans the oracle may have answered:
\* _predict_sell_timing stores sell_price and stop_loss as they come, a stop
\* under the target or over it
StopCases ==
    [st : {"watching"}, exch : Exchanges, avg : {1000},
     sellPrice : {0, 1003, 1100}, stop : {990, 1005},
     action : {"SELL", "HOLD"}, cur : {980, 1002, 1003, 1100}, seen : {FALSE}]

InitStopLoss ==
    /\ CoreAtRest
    /\ exit \in StopCases
    /\ aged = NoAged
    /\ sized = NoSized
    /\ clk = NoClk
    /\ scans = StoredSaves

SpecStopLoss == InitStopLoss /\ [][NextExit]_vars

\* C33: a watching holding with a stop loss set is sold whenever the live
\* price is at or under the stop loss, whatever the exit target, the
\* oracle's action and the net profit
C33_SoldAtStopLoss ==
    (exit.seen /\ exit.stop > 0 /\ exit.cur <= exit.stop) => exit.st = "selling"

\* the live price is at the target and under the stop loss, the gain does
\* not cover the fees, and step 4 has left the holding watching
C33_KeptUnderStopLoss ==
    /\ exit.seen
    /\ exit.stop > 0
    /\ exit.cur <= exit.stop
    /\ exit.cur >= exit.sellPrice
    /\ exit.action = "SELL"
    /\ ~NetProfitable(exit.avg, exit.cur, exit.exch)
    /\ exit.st = "watching"

-----------------------------------------------------------------------------
(* A holdings query that fails                                               *)

\* the open sale orders of symbol sy
OpenSales(sy) ==
    {k \in DOMAIN orders :
        orders[k].sym = sy /\ orders[k].side = "sell" /\ orders[k].state = "open"}

\* C34: a balance query that fails, so that a position still held is
\* missing from its answer, leaves the holdings list as it was: plans and
\* sold flags are kept, and no second sale order follows for a holding
\* whose sale is outstanding
C34_FailedQueryKeepsHoldings ==
    [][\A a, b \in BOOLEAN :
          (/\ HoldPoll(a, b)
           /\ \E sy \in pos : IF MarketOfHolding(sy) = "KR" THEN ~b ELSE ~a)
          => holdings' = holdings]_vars

\* two sale orders of one position are open at the broker
C34_SecondSaleOrder == \E sy \in pos : Cardinality(OpenSales(sy)) = 2

-----------------------------------------------------------------------------
(* ENABLE_AUTO_BUY and ENABLE_AUTO_SELL                                      *)

\* the engine restored with one row tracked and its market open, one position
\* in the account, and the two settings as the operator left them
InitGate ==
    /\ item \in [1..NItems -> StoredRows]
    /\ item[1].sym = "A"
    /\ \A k \in 1..NItems : item[k].market = item[1].market
    /\ \A k \in 2..NItems : item[k].tt = "none"
    /\ buyPool = <<1>>
    /\ candidates = <<1>>
    /\ cash = 400
    /\ blacklist = {}
    /\ holdings = <<>>
    /\ used = [t \in Styles |-> 0]
    /\ orders = <<>>
    /\ active = {item[1].market}
    /\ sel = IdleSel
    /\ trk = IdleTrk
    /\ rpr = IdleRpr
    /\ cfg \in [autoBuy : BOOLEAN, autoSell : BOOLEAN]
    /\ failed = {}
    /\ wk = IdlePool
    /\ tok = NoToken
    /\ fxc = FALSE
    /\ pos \in {{sy} : sy \in Symbols}
    /\ htk = IdleHtk
    /\ retired = {}
    /\ CtlAtRest

\* the candidate tracker and the holding tracker side by side
NextGate ==
    \/ TrackerTick
    \/ \E q \in Quotes : TrackerQuote(q)
    \/ \E p \in PredAnswers, s \in StratAnswers, t \in Styles :
          TrackerPredict(p, s, t)
    \/ \E q \in Quotes, fx \in FxQuotes : TrackerFresh(q, fx)
    \/ \E res \in PlaceAnswers, c \in CashSet : TrackerPlace(res, c)
    \/ \E a, b \in BOOLEAN : HoldPoll(a, b)
    \/ \E q \in HoldQuotes : HoldQuote(q)
    \/ \E a \in SellAnswers : HoldPredict(a)
    \/ \E ok \in BOOLEAN, c \in CashSet : HoldSell(ok, c)
    \/ \E k \in DOMAIN orders : SellFills(k)

SpecGate == InitGate /\ [][NextGate]_vars

\* C35: with auto-buy off no buy order is sent and a candidate whose trigger
\* fired is watching; with auto-sell off no sale order is sent and a holding
\* whose trigger fired is watching
C35_SettingsGateOrders ==
    /\ ~cfg.autoBuy =>
          /\ \A k \in DOMAIN orders : orders[k].side # "buy"
          /\ trk.pc \notin {"fresh", "place"}
          /\ \A i \in 1..NItems : item[i].st # "ordering"
    /\ ~cfg.autoSell =>
          /\ \A k \in DOMAIN orders : orders[k].side # "sell"
          /\ htk.pc # "sell"
          /\ htk.h.st # "selling"
          /\ \A k \in DOMAIN holdings : holdings[k].st # "selling"

\* both settings off, both ticks over: the candidate's trigger holds and the
\* holding's trigger holds, and both are watching
C35_Witness ==
    /\ ~cfg.autoBuy
    /\ ~cfg.autoSell
    /\ trk.pc = "idle"
    /\ htk.pc = "idle"
    /\ \E i \in SeqToSet(candidates) : CheckBuyCondition(item[i])
    /\ \E k \in DOMAIN holdings :
          holdings[k].st = "watching" /\ SellTriggered(holdings[k])

-----------------------------------------------------------------------------
(* _trigger_sell                                                             *)

\* the quotes a filled entry bought at 100 meets: none, under the hard stop,
\* unchanged
TriggerQuotes == {0, 90, 100}
\* what the sell order call of _execute_sell ends in
TriggerAnswers == {"ok", "rejected", "raised"}

\* tracking_status after _trigger_sell, whatever _execute_sell did
TriggerSellStatus(res) == "sold"

\* process_individual_candidate is entered with a filled entry bought at 100
EnterFilled == [IdleTrk EXCEPT !.pc = "quote", !.list = <<1>>, !.idx = 1,
                               !.filled = TRUE]

InitTrigger ==
    /\ \E r \in StoredRows :
          /\ r.tt \in Styles
          /\ item = [k \in 1..NItems |->
                        IF k = 1
                        THEN [r EXCEPT !.st = "filled", !.pred = 100,
                                       !.live = 100, !.oprice = 100]
                        ELSE [r EXCEPT !.tt = "none"]]
    /\ buyPool = <<1>>
    /\ candidates = <<1>>
    /\ cash \in CashSet
    /\ blacklist = {}
    /\ holdings = <<>>
    /\ used = [t \in Styles |-> 0]
    /\ orders = <<>>
    /\ active \in SUBSET Markets
    /\ sel = IdleSel
    /\ trk = EnterFilled
    /\ rpr = IdleRpr
    /\ cfg \in [autoBuy : {TRUE}, autoSell : BOOLEAN]
    /\ failed = {}
    /\ wk = IdlePool
    /\ tok = NoToken
    /\ fxc = FALSE
    /\ pos = {}
    /\ htk = IdleHtk
    /\ retired = {}
    /\ CtlAtRest

\* steps 1 and 2 of process_individual_candidate for a filled entry, and
\* _trigger_sell with _execute_sell up to the sell order call; the entries
\* carry lot_size 1, so the lot check passes; the trailing stop and the time
\* based exit call _trigger_sell as the hard stop does
TriggerQuote(q) ==
    /\ trk.pc = "quote"
    /\ trk.filled
    /\ LET i    == Cur
           live == IF q > 0 THEN q ELSE item[i].price
           it1  == IF live > 0 THEN [item EXCEPT ![i].live = live] ELSE item
       IN  IF ~HardStop(it1[i], live)
           THEN item' = it1 /\ trk' = IdleTrk
           ELSE IF ~cfg.autoSell \/ it1[i].market \notin active
           THEN /\ item' = [it1 EXCEPT ![i].st = TriggerSellStatus("none")]
                /\ trk' = IdleTrk
           ELSE item' = it1 /\ trk' = [trk EXCEPT !.pc = "sell"]
    /\ UNCHANGED <<buyPool, candidates, blacklist, holdings, cash, used, orders,
                   active, sel, rpr, cfg, failed, poolVars, holdVars, ctlVars>>

\* the sell order call of _execute_sell ends and _trigger_sell finishes
TriggerAnswer(res, c) ==
    /\ trk.pc = "sell"
    /\ res = "ok" => Len(orders) < MaxOrders
    /\ orders' = IF res = "ok"
                 THEN Append(orders, [sym |-> item[Cur].sym,
                          market |-> item[Cur].market, side |-> "sell",
                          state |-> "open", old |-> FALSE, tt |-> "none",
                          krw |-> 0])
                 ELSE orders
    /\ cash' = IF res = "ok" THEN c ELSE cash
    /\ item' = [item EXCEPT ![Cur].st = TriggerSellStatus(res)]
    /\ trk' = IdleTrk
    /\ UNCHANGED <<buyPool, candidates, blacklist, holdings, used, active, sel,
                   rpr, cfg, failed, poolVars, holdVars, ctlVars>>

\* process_individual_candidate is applied to the entry again while it is
\* filled
TriggerAgain ==
    /\ trk.pc = "idle"
    /\ item[1].st = "filled"
    /\ trk' = EnterFilled
    /\ UNCHANGED <<item, buyPool, candidates, blacklist, holdings, cash, used,
                   orders, active, sel, rpr, cfg, failed, poolVars, holdVars,
                   ctlVars>>

NextTrigger ==
    \/ \E q \in TriggerQuotes : TriggerQuote(q)
    \/ \E res \in TriggerAnswers, c \in CashSet : TriggerAnswer(res, c)
    \/ TriggerAgain

SpecTrigger == InitTrigger /\ [][NextTrigger]_vars

\* the sale orders the broker accepted for a symbol
AcceptedSales(sy) ==
    {k \in DOMAIN orders : orders[k].sym = sy /\ orders[k].side = "sell"}

-----------------------------------------------------------------------------
(* The entry condition                                                       *)

\* strategy_type as the timing oracle is asked to answer it
EntryStrategies == {"pullback", "breakout"}

NextEntry ==
    \/ TrackerTick
    \/ \E q \in OrderQuotes : TrackerQuote(q)
    \/ \E p \in PredAnswers, s \in EntryStrategies, t \in Styles :
          TrackerPredict(p, s, t)
    \/ \E q \in OrderQuotes, fx \in FxQuotes : TrackerFresh(q, fx)
    \/ \E res \in PlaceAnswers, c \in CashSet : TrackerPlace(res, c)

SpecEntry == InitOrder /\ [][NextEntry]_vars

\* the entry price is reached: both prices positive, and the live price at
\* or above the predicted one for breakout, at or below it for pullback
EntryReached(r) ==
    /\ r.pred > 0
    /\ r.live > 0
    /\ \/ r.strat = "breakout" /\ r.live >= r.pred
       \/ r.strat = "pullback" /\ r.live <= r.pred

\* step 4 of process_individual_candidate is evaluated on entry i in this
\* step, and the entry is watching when it is: it was watching as the quote
\* came in, or the answer of the timing oracle has just been stored
CheckedWatching(i) ==
    /\ trk.pc \in {"quote", "predict"}
    /\ ~trk.filled
    /\ Cur = i
    /\ trk'.pc # "predict"
    /\ trk.pc = "quote" => item[i].st = "watching"

\* C37: with auto-buy on and the market open, an entry is moved to ordering
\* exactly when it is watching at step 4 and its entry price is reached
C37_OrderingIffEntryReached ==
    [][\A i \in 1..NItems :
          (item[i].st # "ordering" /\ item'[i].st = "ordering")
              <=> (CheckedWatching(i) /\ EntryReached(item'[i]))]_vars

\* a breakout entry is in ordering with the live price above the predicted
\* one
C37_Witness ==
    \E i \in SeqToSet(candidates) :
        /\ item[i].st = "ordering"
        /\ item[i].strat = "breakout"
        /\ item[i].live > item[i].pred
        /\ trk.pc = "fresh"

-----------------------------------------------------------------------------
(* The saved scan cycles                                                     *)

\* C38: rows are written under a cycle id at most once
C38_CyclePersistedOnce == scans <= 1

\* rows were written a second time under the cycle id in use
C38_CycleWrittenAgain == scans = MaxSaves

-----------------------------------------------------------------------------
(* The while loop of select_balanced_portfolio on any pool                   *)

\* the candidates handed to the call: typed or not, with a minimum cost of
\* zero, within the cash or above it
TermRows ==
    [ sym : Symbols, market : {"KR"}, score : SelScores, price : {0, 100, 600},
      pkrw : {0}, tt : {"none"} \cup Styles, st : {"none"},
      pred : {0}, strat : {"pullback"}, live : {0}, act : {"BUY"}, risk : {5},
      rqty : {1}, oprice : {0} ]

\* the call is made with the whole pool, whatever each candidate costs
InitTerm ==
    /\ item \in [1..NSel -> TermRows]
    /\ item[1].sym = "A"
    /\ \A k \in 1..NSel :
          item[k].tt = "none" => item[k].score = 60 /\ item[k].price = 100
    /\ buyPool = [k \in 1..NSel |-> k]
    /\ candidates = <<>>
    /\ cash \in {0} \cup SelCash
    /\ blacklist = {}
    /\ holdings = <<>>
    /\ sel = SelStart(item, buyPool, candidates, holdings, blacklist, cash)
    /\ used = [t \in Styles |-> 0]
    /\ orders = <<>>
    /\ active = {"KR"}
    /\ trk = IdleTrk
    /\ rpr = IdleRpr
    /\ cfg = [autoBuy |-> FALSE, autoSell |-> FALSE]
    /\ failed = {}
    /\ wk = IdlePool
    /\ tok = NoToken
    /\ fxc = FALSE
    /\ pos = {}
    /\ htk = IdleHtk
    /\ retired = {}
    /\ CtlAtRest

\* the loop is synchronous code: a pass that can run does run
FairTerm == WF_vars(SelLoop)

SpecTerm == InitTerm /\ [][NextSel]_vars /\ FairTerm

PoolSize(s) == Len(s.pd) + Len(s.ps)

\* C39: every pass of the loop ends it or takes one candidate out of a pool,
\* and the loop ends
C39_SelectionTerminates ==
    /\ [][SelLoop => (sel'.done \/ PoolSize(sel') + 1 = PoolSize(sel))]_vars
    /\ <>sel.done

\* the loop has ended after it admitted a candidate of minimum cost zero and
\* turned away one that did not fit
C39_Witness ==
    /\ sel.done
    /\ \E i \in SeqToSet(sel.sel) : MinCost(item[i]) = 0
    /\ \E i \in 1..NSel :
          /\ item[i].tt \in Styles
          /\ i \notin SeqToSet(sel.sel)
          /\ i \notin SeqToSet(sel.pd) \cup SeqToSet(sel.ps)
          /\ MinCost(item[i]) > sel.cash

-----------------------------------------------------------------------------
(* The night session and the day of the week                                 *)

\* C40: the market whose window wraps midnight is reported open before its
\* close only from Tuesday to Saturday and never on Sunday; every other
\* market is reported open exactly within its window from Monday to Friday
C40_NightSessionFollowsWeekday ==
    clk.pc = "read" =>
        /\ (clk.minute < CloseMinute("US") /\ "US" \in clk.open)
              => clk.weekday \in 1..5
        /\ clk.weekday = 6 => "US" \notin clk.open
        /\ \A m \in ClockMarkets \ {"US"} :
              m \in clk.open <=>
                  /\ clk.weekday < 5
                  /\ OpenMinute(m) <= clk.minute
                  /\ clk.minute < CloseMinute(m)

\* the clock was read before 06:00 on a Monday and reported the market open
C40_OpenOnMondayMorning ==
    /\ clk.pc = "read"
    /\ clk.weekday = 0
    /\ clk.minute < CloseMinute("US")
    /\ "US" \in clk.open

=============================================================================
